---- MODULE Spec2Model ----
(***************************************************************************)
(* Monevo: the budget / movement ledger (database.py), the services and    *)
(* facade on top of it (services.py) and the entities (models.py).         *)
(*                                                                         *)
(* The SQLite file is the variable db (the committed tables); a connection *)
(* that has executed an INSERT / UPDATE / DELETE holds the write lock      *)
(* (writer) and its uncommitted image of the tables (tx) until it commits  *)
(* or rolls back.  A facade call is a request slot (req) that walks        *)
(* through the statements of its handler; what the call returned or raised *)
(* is left in resp.  Every statement is a function from the state (a       *)
(* record w of the five variables) to the states it can lead to, so that   *)
(* the same definitions give the facade call run to completion (Spec) and  *)
(* the facade calls of two clients interleaved statement by statement      *)
(* (SpecConc).                                                             *)
(*                                                                         *)
(* Text is modelled as a sequence of one-character strings so that         *)
(* str.lower() and str.strip() are computed, not assumed.                  *)
(***************************************************************************)
EXTENDS Integers, Sequences, FiniteSets, TLC

VARIABLES db, tx, writer, req, resp, calls, patterns, anotados, user_data, paso

vars == <<db, tx, writer, req, resp, calls, patterns, anotados, user_data, paso>>

-----------------------------------------------------------------------------
(* Bounds of the model *)

\* rows inserted into the two tables, over the whole run
MaxInserts == 4

\* facade calls of the two clients of SpecConc, over the whole run
MaxCalls == 3

\* patterns added to the parser with add_pattern, over the whole run
MaxPatrones == 2

-----------------------------------------------------------------------------
(* Text *)

UpperChars == <<"A", "B", "C", "D", "E", "F", "G", "H", "I", "J", "K", "L", "M",
                "N", "O", "P", "Q", "R", "S", "T", "U", "V", "W", "X", "Y", "Z",
                "E'", "I'", "O'", "N~">>

LowerChars == <<"a", "b", "c", "d", "e", "f", "g", "h", "i", "j", "k", "l", "m",
                "n", "o", "p", "q", "r", "s", "t", "u", "v", "w", "x", "y", "z",
                "e'", "i'", "o'", "n~">>

Whitespace == {" ", "\t", "\n"}

\* str.lower() on one character
LowerChar(ch) ==
    IF \E i \in 1..Len(UpperChars) : UpperChars[i] = ch
    THEN LowerChars[CHOOSE i \in 1..Len(UpperChars) : UpperChars[i] = ch]
    ELSE ch

\* str.lower()
Lower(s) == [i \in 1..Len(s) |-> LowerChar(s[i])]

\* str.strip(): drop leading and trailing whitespace
Strip(s) ==
    LET keep == {i \in 1..Len(s) : s[i] \notin Whitespace}
    IN  IF keep = {} THEN <<>>
        ELSE LET lo == CHOOSE i \in keep : \A j \in keep : i <= j
                 hi == CHOOSE i \in keep : \A j \in keep : j <= i
             IN  SubSeq(s, lo, hi)

\* the texts given as categories: "  Moto ", "moto", "MOTO " and " "
MotoPadded == <<" ", " ", "M", "o", "t", "o", " ">>
MotoLower == <<"m", "o", "t", "o">>
MotoUpper == <<"M", "O", "T", "O", " ">>
Blank == <<" ">>

\* the categories a call is given; a blank one is offered to crear only
Categorias == {MotoPadded, MotoLower, MotoUpper}
CategoriasCrear == Categorias \cup {Blank}

\* lower().strip() of the categories, computed once
NormalizarTabla == [s \in CategoriasCrear |-> Strip(Lower(s))]

\* categoria.lower().strip()
Normalizar(s) ==
    IF s \in DOMAIN NormalizarTabla THEN NormalizarTabla[s] ELSE Strip(Lower(s))

\* Optional[str]
None == [some |-> FALSE, val |-> <<>>]
Some(s) == [some |-> TRUE, val |-> s]

\* Python truthiness of an Optional[str]: None and "" are falsy
Truthy(o) == o.some /\ o.val # <<>>

-----------------------------------------------------------------------------
(* Inputs *)

Usuarios == {"u1", "u2"}


\* amounts offered for a budget and for a movement
MontosPresupuesto == {-5000, 0, 50000, 100000}
MontosMovimiento == {-5000, 0, 5000, 15000}
Montos == MontosPresupuesto \cup MontosMovimiento

Mensual == <<"m", "e", "n", "s", "u", "a", "l">>
AnualCap == <<"A", "n", "u", "a", "l">>
Anual == <<"a", "n", "u", "a", "l">>
Diario == <<"d", "i", "a", "r", "i", "o">>
Semanal == <<"s", "e", "m", "a", "n", "a", "l">>
Quincenal == <<"q", "u", "i", "n", "c", "e", "n", "a", "l">>

PeriodicidadesValidas == {Diario, Semanal, Mensual, Anual}

Periodicidades == {AnualCap, Quincenal}

PeriodicidadesOpt == {None, Some(<<>>)} \cup {Some(s) : s \in Periodicidades}

Gasolina == <<"g", "a", "s", "o", "l", "i", "n", "a">>

Conceptos == {<<>>, Gasolina}

Tipos == {"gasto", "ingreso"}

Procs == {"p1", "p2"}

NoWriter == "none"

-----------------------------------------------------------------------------
(* Messages of the services: the text without the interpolated values *)

MsgCategoriaVacia == "La categoria no puede estar vacia"
MsgMonto == "El monto debe ser mayor a 0"
MsgPeriodicidad == "Periodicidad debe ser: diario, semanal, mensual, anual"
MsgCreado == "Presupuesto '{categoria}' creado exitosamente"
MsgYaExiste == "Ya existe un presupuesto para '{categoria}'"
MsgActualizado == "Presupuesto '{categoria}' actualizado exitosamente"
MsgEliminado == "Presupuesto '{categoria}' eliminado exitosamente"
MsgNoExiste == "No existe presupuesto '{categoria}'"
MsgCrealoPrimero == "No existe presupuesto '{categoria}'. Crealo primero con /crear"
MsgRegistrado(tipo) ==
    IF tipo = "gasto" THEN "Gasto registrado: ${monto} en {categoria}"
    ELSE "Ingreso registrado: ${monto} en {categoria}"
MsgTipo == "Tipo debe ser 'gasto' o 'ingreso'"
MsgNoHayMovimientos == "No hay movimientos registrados para '{categoria}'"
MsgHistorial == "Historial obtenido exitosamente"

-----------------------------------------------------------------------------
(* Entities *)

\* Presupuesto(...) with __post_init__: categoria = categoria.lower().strip()
Presupuesto(u, c, m, per, t) ==
    [usuario_id |-> u, categoria |-> Normalizar(c), monto |-> m,
     periodicidad |-> per, creado_en |-> t]

\* a Movimiento that keeps the categoria as given: what C9 rests on
MovimientoSinNormalizar(u, c, tipo, m, concepto, t) ==
    [usuario_id |-> u, categoria |-> c, tipo |-> tipo, monto |-> m,
     concepto |-> concepto, fecha |-> t]

\* Movimiento(...) with __post_init__: categoria = categoria.lower().strip();
\* the tipo check is MovimientoTipoValido
Movimiento(u, c, tipo, m, concepto, t) ==
    [usuario_id |-> u, categoria |-> Normalizar(c), tipo |-> tipo, monto |-> m,
     concepto |-> concepto, fecha |-> t]

MovimientoTipoValido(tipo) == tipo \in {"gasto", "ingreso"}

-----------------------------------------------------------------------------
(* The tables and the SQL statements of SQLiteRepository *)

\* the two tables and their AUTOINCREMENT counters (table sqlite_sequence)
EmptyDb == [presupuestos |-> {}, movimientos |-> {}, seqP |-> 0, seqM |-> 0]

\* the same SELECT with the categoria as the caller gave it: what C2 rests on
existe_sin_normalizar(d, u, c) ==
    \E r \in d.presupuestos : r.usuario_id = u /\ r.categoria = c

\* SELECT 1 FROM presupuestos WHERE usuario_id = ? AND categoria = ?
\* with (usuario_id, categoria.lower().strip())
presupuesto_existe(d, u, c) ==
    \E r \in d.presupuestos : r.usuario_id = u /\ r.categoria = Normalizar(c)

\* a table presupuestos declared without UNIQUE(usuario_id, categoria):
\* what C1 rests on
SinUnique(d, p) == FALSE

\* UNIQUE(usuario_id, categoria) of table presupuestos
UniqueViolation(d, p) ==
    \E r \in d.presupuestos :
        r.usuario_id = p.usuario_id /\ r.categoria = p.categoria

\* INSERT INTO presupuestos (...) VALUES (...), the row id from sqlite_sequence
InsertPresupuesto(d, p) ==
    [d EXCEPT !.seqP = @ + 1, !.presupuestos = @ \cup
        {[id |-> d.seqP + 1, usuario_id |-> p.usuario_id, categoria |-> p.categoria,
          monto |-> p.monto, periodicidad |-> p.periodicidad,
          creado_en |-> p.creado_en]}]

\* UPDATE presupuestos SET monto = ? [, periodicidad = ?]
\* WHERE usuario_id = ? AND categoria = ?   (categoria as the caller gave it)
UpdatePresupuesto(d, u, c, m, per) ==
    [d EXCEPT !.presupuestos =
        {IF r.usuario_id = u /\ r.categoria = c
         THEN IF Truthy(per)
              THEN [r EXCEPT !.monto = m, !.periodicidad = per.val]
              ELSE [r EXCEPT !.monto = m]
         ELSE r : r \in @}]

\* DELETE FROM presupuestos WHERE usuario_id = ? AND categoria = ?
DeletePresupuestos(d, u, c) ==
    [d EXCEPT !.presupuestos =
        {r \in @ : ~(r.usuario_id = u /\ r.categoria = c)}]

\* the same DELETE without the categoria in its WHERE: what C33 rests on
DeleteMovimientosUsuario(d, u, c) ==
    [d EXCEPT !.movimientos = {r \in @ : r.usuario_id # u}]

\* DELETE FROM movimientos WHERE usuario_id = ? AND categoria = ?
DeleteMovimientos(d, u, c) ==
    [d EXCEPT !.movimientos =
        {r \in @ : ~(r.usuario_id = u /\ r.categoria = c)}]

\* an INSERT OR REPLACE keyed by (usuario_id, categoria), which drops the
\* earlier rows of the key: what C11 rests on
InsertMovimientoReemplaza(d, m) ==
    [d EXCEPT !.seqM = @ + 1, !.movimientos =
        {r \in @ : ~(r.usuario_id = m.usuario_id /\ r.categoria = m.categoria)} \cup
        {[id |-> d.seqM + 1, usuario_id |-> m.usuario_id, categoria |-> m.categoria,
          tipo |-> m.tipo, monto |-> m.monto, concepto |-> m.concepto,
          fecha |-> m.fecha]}]

\* a table movimientos with INTEGER PRIMARY KEY and no AUTOINCREMENT, where
\* the row id is one above the greatest id in the table: what C19 rests on
InsertMovimientoRowid(d, m) ==
    LET ids == {r.id : r \in d.movimientos}
        top == IF ids = {} THEN 0 ELSE CHOOSE i \in ids : \A k \in ids : k <= i
    IN  [d EXCEPT !.seqM = @ + 1, !.movimientos = @ \cup
            {[id |-> top + 1, usuario_id |-> m.usuario_id, categoria |-> m.categoria,
              tipo |-> m.tipo, monto |-> m.monto, concepto |-> m.concepto,
              fecha |-> m.fecha]}]

\* INSERT INTO movimientos (...) VALUES (...), the row id from sqlite_sequence
InsertMovimiento(d, m) ==
    [d EXCEPT !.seqM = @ + 1, !.movimientos = @ \cup
        {[id |-> d.seqM + 1, usuario_id |-> m.usuario_id, categoria |-> m.categoria,
          tipo |-> m.tipo, monto |-> m.monto, concepto |-> m.concepto,
          fecha |-> m.fecha]}]

-----------------------------------------------------------------------------
(* The queries of SQLiteRepository *)

\* the rows of a set in ascending id order (a table scan)
RECURSIVE PorId(_)
PorId(rows) ==
    IF rows = {} THEN <<>>
    ELSE LET r == CHOOSE x \in rows : \A y \in rows : x.id <= y.id
         IN  <<r>> \o PorId(rows \ {r})

\* SELECT ... FROM movimientos WHERE usuario_id = ? AND categoria = ?
\* with (usuario_id, categoria.lower().strip())
MovimientosDe(d, u, c) ==
    {r \in d.movimientos : r.usuario_id = u /\ r.categoria = Normalizar(c)}

\* the characters of a fecha text in the order of the BINARY collation
Collation == <<".", "0", "1", "2", "3", "4", "5", "6", "7", "8", "9">>
Digitos == <<"0", "1", "2", "3", "4", "5", "6", "7", "8", "9">>

\* datetime.isoformat() of the fecha of tick t, the clock going half a second
\* a tick: the seconds in two digits (the date, hour and minute before them
\* are the same for all ticks), and ".500000" when the microseconds are not 0
Isoformat(t) ==
    LET seg == (t \div 2) % 60
        entero == <<Digitos[(seg \div 10) + 1], Digitos[(seg % 10) + 1]>>
    IN  IF t % 2 = 0 THEN entero
        ELSE entero \o <<".", "5", "0", "0", "0", "0", "0">>

\* the place of a character in the collation
Codigo(ch) == CHOOSE i \in DOMAIN Collation : Collation[i] = ch

\* text a < text b as SQLite compares TEXT: byte by byte, a prefix first
TextoMenor(a, b) ==
    \E i \in 1..(Len(a) + 1) :
        /\ i <= Len(b)
        /\ \A k \in 1..(i - 1) : a[k] = b[k]
        /\ i = Len(a) + 1 \/ Codigo(a[i]) < Codigo(b[i])

\* an ORDER BY ... ASC put in place of the DESC: what C18 rests on
OrdenFechaAsc(rows) ==
    {s \in [1..Cardinality(rows) -> rows] :
        /\ \A i, j \in DOMAIN s : i # j => s[i] # s[j]
        /\ \A i, j \in DOMAIN s :
              i < j => ~TextoMenor(Isoformat(s[j].fecha), Isoformat(s[i].fecha))}

\* ORDER BY fecha DESC on the stored texts: every order of the rows that has
\* no greater text after a lesser one (rows of equal fecha come in any order)
OrdenFechaDesc(rows) ==
    {s \in [1..Cardinality(rows) -> rows] :
        /\ \A i, j \in DOMAIN s : i # j => s[i] # s[j]
        /\ \A i, j \in DOMAIN s :
              i < j => ~TextoMenor(Isoformat(s[i].fecha), Isoformat(s[j].fecha))}

\* obtener_historial: a Movimiento per row, built with the categoria and the
\* usuario_id of the call
obtener_historial(d, u, c) ==
    {[i \in DOMAIN s |->
        [id |-> s[i].id, usuario_id |-> u, categoria |-> Normalizar(c),
         tipo |-> s[i].tipo, monto |-> s[i].monto, concepto |-> s[i].concepto,
         fecha |-> s[i].fecha]] : s \in OrdenFechaDesc(MovimientosDe(d, u, c))}

\* the same SELECT without its WHERE: what C20 rests on
PresupuestosDeTodos(d, u) == PorId(d.presupuestos)

\* SELECT categoria, monto, periodicidad FROM presupuestos WHERE usuario_id = ?
PresupuestosDe(d, u) == PorId({r \in d.presupuestos : r.usuario_id = u})

RECURSIVE SumaMontos(_)
SumaMontos(rows) ==
    IF rows = {} THEN 0
    ELSE LET r == CHOOSE x \in rows : TRUE
         IN  r.monto + SumaMontos(rows \ {r})

\* SELECT COALESCE(SUM(monto), 0) FROM movimientos
\* WHERE usuario_id = ? AND categoria = ? AND tipo = ?
SumaPorTipo(d, u, c, tipo) ==
    SumaMontos({r \in d.movimientos :
                   r.usuario_id = u /\ r.categoria = c /\ r.tipo = tipo})

\* a saldo that leaves the ingresos out: what C8 rests on
SaldoSinIngresos(monto, gastos, ingresos) == monto - gastos

\* saldo = monto + ingresos - gastos
Saldo(monto, gastos, ingresos) == monto + ingresos - gastos

\* ResumenPresupuesto(...)
ResumenPresupuesto(fila, gastos, ingresos) ==
    [categoria |-> fila.categoria, monto_inicial |-> fila.monto,
     gastos |-> gastos, ingresos |-> ingresos,
     saldo |-> Saldo(fila.monto, gastos, ingresos),
     periodicidad |-> fila.periodicidad]

-----------------------------------------------------------------------------
(* Requests and responses *)

IdleReq == [pc |-> "idle"]

NoResp == [op |-> "none", kind |-> "none", ok |-> FALSE, msg |-> "", data |-> <<>>]

\* return (ok, msg[, data]) of a facade call
Returned(op, ok, msg, data) ==
    [op |-> op, kind |-> "return", ok |-> ok, msg |-> msg, data |-> data]

\* an exception left the facade call, raised by the statement at pc
Raised(op, error, pc) ==
    [op |-> op, kind |-> "raise", ok |-> FALSE, msg |-> error, data |-> <<pc>>]

\* the state as one record
World == [db |-> db, tx |-> tx, writer |-> writer, req |-> req, resp |-> resp]

\* the call of p is over: its result is left in resp and the slot is free
Finish(w, p, r) == [w EXCEPT !.req[p] = IdleReq, !.resp[p] = r]

\* the call of p goes on at its next statement
Goto(w, p, r) == [w EXCEPT !.req[p] = r]

\* datetime.now(): the clock ticks with every committed INSERT
Now(w) == w.db.seqP + w.db.seqM

\* the run may insert one more row
MayInsert(w) == w.db.seqP + w.db.seqM < MaxInserts

\* the connection of p executes an INSERT / UPDATE / DELETE: the first one
\* takes the write lock, and the statement works on the connection's own
\* image of the tables
Execute(w, p, image) == [w EXCEPT !.writer = p, !.tx = image]

\* the tables as the connection of p sees them
Image(w, p) == IF w.writer = p THEN w.tx ELSE w.db

\* the write lock is free or held by p
CanWrite(w, p) == w.writer \in {NoWriter, p}

\* conn.commit()
Commit(w, p) == [w EXCEPT !.db = Image(w, p), !.tx = Image(w, p),
                          !.writer = IF w.writer = p THEN NoWriter ELSE @]

\* a connection in autocommit mode, whose statements are durable one by one:
\* what C5 rests on
SinTransaccion(w, p) == Commit(w, p)

\* conn.rollback() in get_connection, and the close of the connection
Rollback(w, p) ==
    IF w.writer = p THEN [w EXCEPT !.tx = w.db, !.writer = NoWriter] ELSE w

-----------------------------------------------------------------------------
(* PresupuestoService.crear_presupuesto / SQLiteRepository.crear_presupuesto *)

\* the same call with a service that takes any periodicidad: what C14
\* rests on
crear_sin_periodicidad(w, p, u, c, m, per) ==
    IF Strip(c) = <<>>
    THEN {Finish(w, p, Returned("crear", FALSE, MsgCategoriaVacia, <<>>))}
    ELSE IF m <= 0
    THEN {Finish(w, p, Returned("crear", FALSE, MsgMonto, <<>>))}
    ELSE LET presupuesto == Presupuesto(u, c, m, Lower(per), Now(w))
         IN  IF presupuesto_existe(w.db, u, presupuesto.categoria)
             THEN {Finish(w, p, Returned("crear", FALSE, MsgYaExiste, <<>>))}
             ELSE {Goto(w, p, [pc |-> "crear_insert", op |-> "crear",
                               presupuesto |-> presupuesto])}

\* the validations of the service, the Presupuesto and the existence check
\* that opens SQLiteRepository.crear_presupuesto
crear_presupuesto(w, p, u, c, m, per) ==
    IF Strip(c) = <<>>
    THEN {Finish(w, p, Returned("crear", FALSE, MsgCategoriaVacia, <<>>))}
    ELSE IF m <= 0
    THEN {Finish(w, p, Returned("crear", FALSE, MsgMonto, <<>>))}
    ELSE IF Lower(per) \notin PeriodicidadesValidas
    THEN {Finish(w, p, Returned("crear", FALSE, MsgPeriodicidad, <<>>))}
    ELSE LET presupuesto == Presupuesto(u, c, m, Lower(per), Now(w))
         IN  IF presupuesto_existe(w.db, u, presupuesto.categoria)
             THEN {Finish(w, p, Returned("crear", FALSE, MsgYaExiste, <<>>))}
             ELSE {Goto(w, p, [pc |-> "crear_insert", op |-> "crear",
                               presupuesto |-> presupuesto])}

\* cur.execute(INSERT INTO presupuestos ...): the UNIQUE constraint raises
\* sqlite3.IntegrityError, which get_connection rolls back and re-raises
crear_insert(w, p) ==
    IF ~CanWrite(w, p) THEN {}
    ELSE IF UniqueViolation(Image(w, p), w.req[p].presupuesto)
    THEN {Finish(Rollback(w, p), p, Raised("crear", "IntegrityError", "crear_insert"))}
    ELSE IF ~MayInsert(w) THEN {}
    ELSE {Goto(Execute(w, p, InsertPresupuesto(Image(w, p), w.req[p].presupuesto)),
               p, [w.req[p] EXCEPT !.pc = "crear_commit"])}

\* conn.commit(); return True
crear_commit(w, p) ==
    {Finish(Commit(w, p), p, Returned("crear", TRUE, MsgCreado, <<>>))}

-----------------------------------------------------------------------------
(* PresupuestoService.actualizar_presupuesto /                             *)
(* SQLiteRepository.actualizar_presupuesto                                 *)

\* the same call with a service that refuses negative amounts only: what C6
\* rests on
actualizar_monto_cero(w, p, u, c, m, per) ==
    IF m < 0
    THEN {Finish(w, p, Returned("actualizar", FALSE, MsgMonto, <<>>))}
    ELSE IF ~presupuesto_existe(w.db, u, c)
    THEN {Finish(w, p, Returned("actualizar", FALSE, MsgNoExiste, <<>>))}
    ELSE {Goto(w, p, [pc |-> "actualizar_update", op |-> "actualizar",
                      usuario_id |-> u, categoria |-> c, monto |-> m,
                      periodicidad |-> per])}

\* the validations of the service and the existence check of the repository
actualizar_presupuesto(w, p, u, c, m, per) ==
    IF m <= 0
    THEN {Finish(w, p, Returned("actualizar", FALSE, MsgMonto, <<>>))}
    ELSE IF Truthy(per) /\ Lower(per.val) \notin PeriodicidadesValidas
    THEN {Finish(w, p, Returned("actualizar", FALSE, MsgPeriodicidad, <<>>))}
    ELSE IF ~presupuesto_existe(w.db, u, c)
    THEN {Finish(w, p, Returned("actualizar", FALSE, MsgNoExiste, <<>>))}
    ELSE {Goto(w, p, [pc |-> "actualizar_update", op |-> "actualizar",
                      usuario_id |-> u, categoria |-> c, monto |-> m,
                      periodicidad |-> per])}

\* cur.execute(UPDATE presupuestos ...)
actualizar_update(w, p) ==
    IF ~CanWrite(w, p) THEN {}
    ELSE LET r == w.req[p]
         IN  {Goto(Execute(w, p, UpdatePresupuesto(Image(w, p), r.usuario_id,
                                     r.categoria, r.monto, r.periodicidad)),
                   p, [r EXCEPT !.pc = "actualizar_commit"])}

\* conn.commit(); return True
actualizar_commit(w, p) ==
    {Finish(Commit(w, p), p, Returned("actualizar", TRUE, MsgActualizado, <<>>))}

-----------------------------------------------------------------------------
(* PresupuestoService.eliminar_presupuesto /                               *)
(* SQLiteRepository.eliminar_presupuesto                                   *)

\* the existence check of the repository
eliminar_presupuesto(w, p, u, c) ==
    IF ~presupuesto_existe(w.db, u, c)
    THEN {Finish(w, p, Returned("eliminar", FALSE, MsgNoExiste, <<>>))}
    ELSE {Goto(w, p, [pc |-> "eliminar_presupuestos", op |-> "eliminar",
                      usuario_id |-> u, categoria |-> c])}

\* cur.execute(DELETE FROM presupuestos ...)
eliminar_presupuestos(w, p) ==
    IF ~CanWrite(w, p) THEN {}
    ELSE LET r == w.req[p]
         IN  {Goto(Execute(w, p, DeletePresupuestos(Image(w, p), r.usuario_id,
                                                     r.categoria)),
                   p, [r EXCEPT !.pc = "eliminar_movimientos"])}

\* the same step with a cascade that leaves the movements where they are:
\* what C31 rests on
eliminar_sin_cascada(w, p) ==
    {Goto(w, p, [w.req[p] EXCEPT !.pc = "eliminar_commit"])}

\* cur.execute(DELETE FROM movimientos ...), in the same transaction
eliminar_movimientos(w, p) ==
    IF ~CanWrite(w, p) THEN {}
    ELSE LET r == w.req[p]
         IN  {Goto(Execute(w, p, DeleteMovimientos(Image(w, p), r.usuario_id,
                                                    r.categoria)),
                   p, [r EXCEPT !.pc = "eliminar_commit"])}

\* conn.commit(); return True
eliminar_commit(w, p) ==
    {Finish(Commit(w, p), p, Returned("eliminar", TRUE, MsgEliminado, <<>>))}

-----------------------------------------------------------------------------
(* MovimientoService.registrar_gasto / registrar_ingreso /                 *)
(* _registrar_movimiento and SQLiteRepository.registrar_movimiento         *)

\* the same call with a service that does not look for the budget: what C7
\* rests on
registrar_sin_presupuesto(w, p, u, c, tipo, m, concepto) ==
    IF m <= 0
    THEN {Finish(w, p, Returned(tipo, FALSE, MsgMonto, <<>>))}
    ELSE {Goto(w, p, [pc |-> "registrar_insert", op |-> tipo,
                      movimiento |-> Movimiento(u, c, tipo, m, concepto, Now(w))])}

\* the same call with a service that refuses negative amounts only: what
\* C16 rests on
registrar_monto_cero(w, p, u, c, tipo, m, concepto) ==
    IF ~presupuesto_existe(w.db, u, c)
    THEN {Finish(w, p, Returned(tipo, FALSE, MsgCrealoPrimero, <<>>))}
    ELSE IF m < 0
    THEN {Finish(w, p, Returned(tipo, FALSE, MsgMonto, <<>>))}
    ELSE {Goto(w, p, [pc |-> "registrar_insert", op |-> tipo,
                      movimiento |-> Movimiento(u, c, tipo, m, concepto, Now(w))])}

\* the existence check through the budget service, the amount validation
\* and the Movimiento (its ValueError is caught and returned)
registrar_movimiento(w, p, u, c, tipo, m, concepto) ==
    IF ~presupuesto_existe(w.db, u, c)
    THEN {Finish(w, p, Returned(tipo, FALSE, MsgCrealoPrimero, <<>>))}
    ELSE IF m <= 0
    THEN {Finish(w, p, Returned(tipo, FALSE, MsgMonto, <<>>))}
    ELSE IF ~MovimientoTipoValido(tipo)
    THEN {Finish(w, p, Returned(tipo, FALSE, MsgTipo, <<>>))}
    ELSE {Goto(w, p, [pc |-> "registrar_insert", op |-> tipo,
                      movimiento |-> Movimiento(u, c, tipo, m, concepto, Now(w))])}

\* cur.execute(INSERT INTO movimientos ...)
registrar_insert(w, p) ==
    IF ~CanWrite(w, p) \/ ~MayInsert(w) THEN {}
    ELSE {Goto(Execute(w, p, InsertMovimiento(Image(w, p), w.req[p].movimiento)),
               p, [w.req[p] EXCEPT !.pc = "registrar_commit"])}

\* conn.commit(); return True
registrar_commit(w, p) ==
    {Finish(Commit(w, p), p,
            Returned(w.req[p].op, TRUE, MsgRegistrado(w.req[p].op), <<>>))}

-----------------------------------------------------------------------------
(* The read operations of the facade *)

\* PresupuestoService.presupuesto_existe
existe(w, p, u, c) ==
    {Finish(w, p, Returned("existe", presupuesto_existe(w.db, u, c), "", <<>>))}

\* MovimientoService.obtener_historial: the existence check
historial(w, p, u, c) ==
    IF ~presupuesto_existe(w.db, u, c)
    THEN {Finish(w, p, Returned("historial", FALSE, MsgNoExiste, <<>>))}
    ELSE {Goto(w, p, [pc |-> "historial_select", op |-> "historial",
                      usuario_id |-> u, categoria |-> c])}

\* the same step with a service that returns the list without looking at
\* it: what C17 rests on
historial_sin_vacio(w, p) ==
    {Finish(w, p, Returned("historial", TRUE, MsgHistorial, movimientos)) :
        movimientos \in obtener_historial(w.db, w.req[p].usuario_id,
                                          w.req[p].categoria)}

\* the same step with a query that takes the movements it returns out of the
\* table: what C30 rests on
historial_select_consume(w, p) ==
    LET suyos == MovimientosDe(w.db, w.req[p].usuario_id, w.req[p].categoria)
        resto == [w.db EXCEPT !.movimientos = @ \ suyos]
    IN  {IF movimientos = <<>>
         THEN Finish(w, p, Returned("historial", FALSE, MsgNoHayMovimientos, <<>>))
         ELSE Finish([w EXCEPT !.db = resto, !.tx = resto], p,
                     Returned("historial", TRUE, MsgHistorial, movimientos)) :
            movimientos \in obtener_historial(w.db, w.req[p].usuario_id,
                                              w.req[p].categoria)}

\* MovimientoService.obtener_historial: the query of the repository
historial_select(w, p) ==
    {IF movimientos = <<>>
     THEN Finish(w, p, Returned("historial", FALSE, MsgNoHayMovimientos, <<>>))
     ELSE Finish(w, p, Returned("historial", TRUE, MsgHistorial, movimientos)) :
        movimientos \in obtener_historial(w.db, w.req[p].usuario_id,
                                          w.req[p].categoria)}

\* SQLiteRepository.obtener_resumen: the query of the budgets
resumen(w, p, u) ==
    LET filas == PresupuestosDe(w.db, u)
    IN  IF filas = <<>>
        THEN {Finish(w, p, Returned("resumen", TRUE, "", <<>>))}
        ELSE {Goto(w, p, [pc |-> "resumen_gastos", op |-> "resumen",
                          usuario_id |-> u, filas |-> filas, gastos |-> 0,
                          resumenes |-> <<>>])}

\* SQLiteRepository.obtener_resumen: the sum of the gastos of the next budget
resumen_gastos(w, p) ==
    LET r == w.req[p]
    IN  {Goto(w, p, [r EXCEPT !.pc = "resumen_ingresos",
                              !.gastos = SumaPorTipo(w.db, r.usuario_id,
                                             Head(r.filas).categoria, "gasto")])}

\* SQLiteRepository.obtener_resumen: the sum of the ingresos, the saldo and
\* the ResumenPresupuesto of that budget
resumen_ingresos(w, p) ==
    LET r == w.req[p]
        fila == Head(r.filas)
        ingresos == SumaPorTipo(w.db, r.usuario_id, fila.categoria, "ingreso")
        resumenes == Append(r.resumenes, ResumenPresupuesto(fila, r.gastos, ingresos))
    IN  IF Tail(r.filas) = <<>>
        THEN {Finish(w, p, Returned("resumen", TRUE, "", resumenes))}
        ELSE {Goto(w, p, [r EXCEPT !.pc = "resumen_gastos", !.filas = Tail(@),
                                   !.gastos = 0, !.resumenes = resumenes])}

-----------------------------------------------------------------------------
(* Running a call *)

\* the next statement of the call of p
Statement(w, p) ==
    CASE w.req[p].pc = "crear_insert" -> crear_insert(w, p)
      [] w.req[p].pc = "crear_commit" -> crear_commit(w, p)
      [] w.req[p].pc = "actualizar_update" -> actualizar_update(w, p)
      [] w.req[p].pc = "actualizar_commit" -> actualizar_commit(w, p)
      [] w.req[p].pc = "eliminar_presupuestos" -> eliminar_presupuestos(w, p)
      [] w.req[p].pc = "eliminar_movimientos" -> eliminar_movimientos(w, p)
      [] w.req[p].pc = "eliminar_commit" -> eliminar_commit(w, p)
      [] w.req[p].pc = "registrar_insert" -> registrar_insert(w, p)
      [] w.req[p].pc = "registrar_commit" -> registrar_commit(w, p)
      [] w.req[p].pc = "historial_select" -> historial_select(w, p)
      [] w.req[p].pc = "resumen_gastos" -> resumen_gastos(w, p)
      [] w.req[p].pc = "resumen_ingresos" -> resumen_ingresos(w, p)
      [] OTHER -> {}

\* the call of p run to its end, no other call in between
RECURSIVE Run(_, _)
Run(ws, p) ==
    IF \A w \in ws : w.req[p].pc = "idle" THEN ws
    ELSE Run(UNION {IF w.req[p].pc = "idle" THEN {w} ELSE Statement(w, p) : w \in ws}, p)

\* the same failure under a service that catches it and returns False: what
\* C23 rests on
storage_error_devuelto(w, p) ==
    Finish(Rollback(w, p), p,
           Returned(w.req[p].op, FALSE, "Error al registrar el movimiento", <<>>))

\* a storage failure inside a store call: get_connection rolls back the
\* connection, closes it and re-raises
storage_error(w, p) ==
    Finish(Rollback(w, p), p, Raised(w.req[p].op, "StorageError", w.req[p].pc))

\* the statements that take the write lock of the database file
Escrituras == {"crear_insert", "actualizar_update", "eliminar_presupuestos",
               "registrar_insert"}

\* the user a call works for
UsuarioDe(r) ==
    IF "presupuesto" \in DOMAIN r THEN r.presupuesto.usuario_id
    ELSE IF "movimiento" \in DOMAIN r THEN r.movimiento.usuario_id
    ELSE r.usuario_id

\* sqlite3.connect(db_name) waits for the write lock of another connection
\* for its default timeout (5 s), then the statement raises
\* sqlite3.OperationalError "database is locked", which get_connection
\* re-raises
database_locked(w, p) ==
    Finish(Rollback(w, p), p, Raised(w.req[p].op, "OperationalError", w.req[p].pc))

-----------------------------------------------------------------------------
(* ResumenPresupuesto.porcentaje_usado *)

\* the float (gastos / monto_inicial) * 100 to two decimals, in hundredths of
\* a percentage point
PorcentajeNeto(r) ==
    IF r.monto_inicial = 0 THEN 0
    ELSE ((r.gastos - r.ingresos) * 10000) \div r.monto_inicial

porcentaje_usado(r) ==
    IF r.monto_inicial = 0 THEN 0
    ELSE (r.gastos * 10000) \div r.monto_inicial

-----------------------------------------------------------------------------
(* MessageParser: the three patterns and parse.  A text is a sequence of    *)
(* characters; the letters with an accent and the n with a tilde are        *)
(* written "e'", "i'", "o'", "n~" and "E'", "I'", "O'", "N~".                *)

\* the character classes \d, \s and \w of the patterns, and . (any character
\* but a newline)
EnClase(clase, ch) ==
    LET digito == \E i \in DOMAIN Digitos : Digitos[i] = ch
    IN  CASE clase = "d" -> digito
          [] clase = "s" -> ch \in Whitespace
          [] clase = "w" ->
                \/ digito
                \/ ch = "_"
                \/ \E i \in DOMAIN LowerChars : ch \in {LowerChars[i], UpperChars[i]}
          [] clase = "." -> ch # "\n"

\* a greedy + of a character class from position i: the position after the
\* longest run, 0 when there is no run (or i is 0: nothing matched before)
Tramo(s, i, clase) ==
    IF i = 0 \/ i > Len(s) THEN 0
    ELSE IF ~EnClase(clase, s[i]) THEN 0
    ELSE 1 + CHOOSE j \in i..Len(s) :
                 /\ \A k \in i..j : EnClase(clase, s[k])
                 /\ j = Len(s) \/ ~EnClase(clase, s[j + 1])

\* the literal w at position i under re.IGNORECASE: the position after it, or 0
Literal(s, i, w) ==
    IF i = 0 \/ i + Len(w) - 1 > Len(s) THEN 0
    ELSE IF Lower(SubSeq(s, i, i + Len(w) - 1)) = w THEN i + Len(w)
    ELSE 0

\* int() of a run of digits
RECURSIVE ValorEntero(_)
ValorEntero(ds) ==
    IF ds = <<>> THEN 0
    ELSE 10 * ValorEntero(SubSeq(ds, 1, Len(ds) - 1))
         + (CHOOSE i \in DOMAIN Digitos : Digitos[i] = ds[Len(ds)]) - 1

\* no match at this position, or None of pattern.search
NoMatch == [found |-> FALSE]

\* v under the name x in F: v is computed once, where a LET would compute it
\* wherever its name stands
Con(v, F(_)) == CHOOSE r \in {F(x) : x \in {v}} : TRUE

\* (verbo)\s+(\d+)\s+(prep)\s+(\w+)(\s+por\s+(.+))? at position i: the groups
\* 2, 4 and 6.  a .. k are the positions after each part, in the order of the
\* pattern, and m the first position of group 6: the optional group gives
\* characters back only in its second \s+, to leave one to (.+).
MovimientoAt(s, i, verbos, prep) ==
    Con({Literal(s, i, w) : w \in verbos} \ {0}, LAMBDA v :
    Con(IF v = {} THEN 0 ELSE CHOOSE e \in v : TRUE, LAMBDA a :
    Con(Tramo(s, a, "s"), LAMBDA b :
    Con(Tramo(s, b, "d"), LAMBDA c :
    Con(Tramo(s, c, "s"), LAMBDA d :
    Con(Literal(s, d, prep), LAMBDA e :
    Con(Tramo(s, e, "s"), LAMBDA f :
    Con(Tramo(s, f, "w"), LAMBDA g :
    Con(Tramo(s, g, "s"), LAMBDA h :
    Con(Literal(s, h, <<"p", "o", "r">>), LAMBDA j :
    Con(Tramo(s, j, "s"), LAMBDA k :
    Con({m \in (j + 1)..k : m <= Len(s) /\ EnClase(".", s[m])}, LAMBDA ms :
        IF g = 0 THEN NoMatch
        ELSE [found |-> TRUE, monto |-> SubSeq(s, b, c - 1),
              categoria |-> SubSeq(s, f, g - 1),
              concepto |->
                  IF k = 0 \/ ms = {} THEN None
                  ELSE Con(CHOOSE x \in ms : \A y \in ms : y <= x, LAMBDA m :
                           Some(SubSeq(s, m, Tramo(s, m, ".") - 1)))]))))))))))))

\* the pattern ver\s+(\w+), without the optional word: what C27 rests on
VerAtSinPresupuesto(s, i) ==
    Con(Tramo(s, Literal(s, i, <<"v", "e", "r">>), "s"), LAMBDA b :
    Con(Tramo(s, b, "w"), LAMBDA f :
        IF f # 0 THEN [found |-> TRUE, categoria |-> SubSeq(s, b, f - 1)]
        ELSE NoMatch))

\* VerPresupuestoPattern: ver\s+(presupuesto\s+)?(\w+) at position i: group 2.
\* Without a word after "presupuesto\s+" the optional group is given up and
\* the word is "presupuesto" itself.
VerAt(s, i) ==
    Con(Tramo(s, Literal(s, i, <<"v", "e", "r">>), "s"), LAMBDA b :
    Con(Tramo(s, Literal(s, b, <<"p", "r", "e", "s", "u", "p", "u", "e", "s", "t", "o">>),
              "s"), LAMBDA d :
    Con(Tramo(s, d, "w"), LAMBDA e :
    Con(Tramo(s, b, "w"), LAMBDA f :
        IF e # 0 THEN [found |-> TRUE, categoria |-> SubSeq(s, d, e - 1)]
        ELSE IF f # 0 THEN [found |-> TRUE, categoria |-> SubSeq(s, b, f - 1)]
        ELSE NoMatch))))

\* the texts of the messages: the examples of the help message and of the
\* patterns, and texts that two or three patterns match, that none matches,
\* with capitals, with spaces and lines around, and with a pattern inside a
\* longer sentence
GasteMotoGasolina ==
    <<"G", "a", "s", "t", "e'", " ", "3", "0", "0", "0", " ", "d", "e",
      " ", "m", "o", "t", "o", " ", "p", "o", "r", " ", "g", "a", "s", "o",
      "l", "i", "n", "a">>
AnadiInversion ==
    <<"A", "n~", "a", "d", "i'", " ", "5", "0", "0", "0", " ", "a", " ",
      "i", "n", "v", "e", "r", "s", "i", "o'", "n">>
VerPresupuestoMoto ==
    <<"V", "e", "r", " ", "p", "r", "e", "s", "u", "p", "u", "e", "s", "t",
      "o", " ", "m", "o", "t", "o">>
HolaQueTal ==
    <<"h", "o", "l", "a", " ", "q", "u", "e", " ", "t", "a", "l">>
GasteSumeVer ==
    <<"s", "a", "q", "u", "e'", " ", "5", " ", "d", "e", " ", "a", " ",
      "p", "o", "r", " ", "s", "u", "m", "e'", " ", "7", " ", "a", " ",
      "v", "e", "r", " ", "m", "o", "t", "o">>
SumeVer ==
    <<"s", "u", "m", "e'", " ", "5", " ", "a", " ", "v", "e", "r", " ",
      "m", "o", "t", "o">>
AnadiConEspacios ==
    <<" ", " ", "A", "n~", "a", "d", "i'", " ", "5", "0", "0", "0", " ",
      "a", " ", "M", "o", "t", "o", " ", "p", "o", "r", " ", " ", "s", "u",
      "e", "l", "d", "o", " ", "\n">>
SaqueCero ==
    <<"S", "a", "q", "u", "e'", " ", "0", " ", "d", "e", " ", "m", "o",
      "t", "o">>

Mensajes ==
    {GasteMotoGasolina, AnadiInversion, VerPresupuestoMoto, HolaQueTal,
     GasteSumeVer, SumeVer, AnadiConEspacios, SaqueCero,
     <<"G", "A", "S", "T", "E'", " ", "3", "0", "0", "0", " ", "D", "E",
       " ", "M", "O", "T", "O">>,
     <<"g", "a", "s", "t", "e", " ", "1", "0", " ", "d", "e", " ", "v", "e",
       "r", " ", "m", "o", "t", "o">>,
     <<"v", "e", "r", " ", "p", "r", "e", "s", "u", "p", "u", "e", "s", "t",
       "o">>,
     <<"c", "o", "n", "v", "e", "r", " ", "s", "a", "r">>,
     <<"s", "a", "q", "u", "e", " ", "5", " ", "d", "e", " ", "m", "o", "t",
       "o">>,
     <<"g", "a", "s", "t", "e'", " ", "m", "u", "c", "h", "o", " ", "d",
       "e", " ", "m", "o", "t", "o">>,
     <<"g", "a", "s", "t", "e'", " ", "3", "0", "0", "0", " ", "d", "e",
       " ", "m", "o", "t", "o", " ", "p", "o", "r", "q", "u", "e">>,
     <<"g", "a", "s", "t", "e'", " ", "2", "0", " ", "d", "e", " ", "m",
       "o", "t", "o", " ", "p", "o", "r", " ", "a", "\n", "b">>,
     <<>>,
     <<"v", "e", "r", " ", "i", "n", "v", "e", "r", "s", "i", "o'", "n">>,
     <<"a", "g", "r", "e", "g", "u", "e", " ", "5", "0", "0", "0", " ", "a",
       " ", "m", "o", "t", "o">>,
     <<"G", "a", "s", "t", "e'", " ", "3", "0", "0", "0", " ", "d", "e",
       " ", "M", "o", "t", "o", "-", "t", "a", "x", "i">>,
     <<"n", "o", " ", "g", "a", "s", "t", "e'", ",", " ", "g", "a", "s",
       "t", "e'", " ", "0", "0", "7", " ", "d", "e", " ", "m", "o", "t",
       "o", "_", "1">>,
     <<"v", "e", "r", " ", " ", "p", "r", "e", "s", "u", "p", "u", "e", "s",
       "t", "o", " ", "!">>}

\* MessageParser.__init__: self.patterns
PatronesDefecto ==
    <<[clase |-> "GastoPattern", action |-> "gasto"],
      [clase |-> "IngresoPattern", action |-> "ingreso"],
      [clase |-> "VerPresupuestoPattern", action |-> "ver_presupuesto"]>>

\* patterns of the caller's own, for add_pattern: one that handles the texts
\* that begin with "hola", one that handles every text, and one that handles
\* every text and extracts nothing from it
PatronesNuevos ==
    {[clase |-> "MessagePattern", action |-> "saludo",
      prefijo |-> <<"h", "o", "l", "a">>, extrae |-> TRUE],
     [clase |-> "MessagePattern", action |-> "todo", prefijo |-> <<>>,
      extrae |-> TRUE],
     [clase |-> "MessagePattern", action |-> "nada", prefijo |-> <<>>,
      extrae |-> FALSE]}

\* self.pattern.search(mensaje) of the three patterns: the match at the
\* leftmost position that has one, with
\* GastoPattern (gast[e'e]|saque')\s+(\d+)\s+(de)\s+(\w+)(\s+por\s+(.+))? and
\* IngresoPattern (an~ad[i'i]|agregu[e'e]|sum[e'e])\s+(\d+)\s+(a)\s+(\w+)(\s+por\s+(.+))?
Buscar(clase, s) ==
    LET At(i) ==
            CASE clase = "GastoPattern" ->
                    MovimientoAt(s, i, {<<"g", "a", "s", "t", "e">>,
                                        <<"g", "a", "s", "t", "e'">>,
                                        <<"s", "a", "q", "u", "e'">>}, <<"d", "e">>)
              [] clase = "IngresoPattern" ->
                    MovimientoAt(s, i, {<<"a", "n~", "a", "d", "i">>,
                                        <<"a", "n~", "a", "d", "i'">>,
                                        <<"a", "g", "r", "e", "g", "u", "e">>,
                                        <<"a", "g", "r", "e", "g", "u", "e'">>,
                                        <<"s", "u", "m", "e">>,
                                        <<"s", "u", "m", "e'">>}, <<"a">>)
              [] clase = "VerPresupuestoPattern" -> VerAt(s, i)
        starts == {i \in 1..Len(s) : At(i).found}
    IN  IF starts = {} THEN NoMatch
        ELSE At(CHOOSE i \in starts : \A j \in starts : i <= j)

\* the searches of the three patterns in the texts of Mensajes, computed once
BuscarTabla ==
    [clase \in {"GastoPattern", "IngresoPattern", "VerPresupuestoPattern"} |->
        [s \in {Strip(t) : t \in Mensajes} |-> Buscar(clase, s)]]

pattern_search(pat, s) ==
    IF s \in DOMAIN BuscarTabla[pat.clase] THEN BuscarTabla[pat.clase][s]
    ELSE Buscar(pat.clase, s)

\* pattern.can_handle(mensaje)
can_handle(pat, s) ==
    IF pat.clase = "MessagePattern" THEN Literal(s, 1, pat.prefijo) # 0
    ELSE pattern_search(pat, s).found

\* pattern.extract_data(mensaje): a dict, or None
extract_data(pat, s) ==
    IF pat.clase = "MessagePattern"
    THEN IF pat.extrae /\ can_handle(pat, s) THEN Some([texto |-> s]) ELSE None
    ELSE Con(pattern_search(pat, s), LAMBDA match :
             IF ~match.found THEN None
             ELSE IF pat.clase = "VerPresupuestoPattern"
             THEN Some([categoria |-> Strip(Lower(match.categoria))])
             ELSE Some([monto |-> ValorEntero(match.monto),
                        categoria |-> Strip(Lower(match.categoria)),
                        concepto |-> IF match.concepto.some
                                     THEN Strip(match.concepto.val) ELSE <<>>]))

\* parse returned None
NoIntent == [action |-> "none", data |-> <<>>]

\* the loop of parse over the patterns, on the stripped text
RECURSIVE PrimerPatron(_, _)
PrimerPatron(pats, s) ==
    IF pats = <<>> THEN NoIntent
    ELSE Con(extract_data(Head(pats), s), LAMBDA data :
             IF can_handle(Head(pats), s) /\ data.some
             THEN [action |-> Head(pats).action, data |-> data.val]
             ELSE PrimerPatron(Tail(pats), s))

\* a parser that asks its last pattern first: what C25 rests on
parse_al_reves(pats, mensaje) ==
    Con(Strip(mensaje), LAMBDA s :
        PrimerPatron([i \in 1..Len(pats) |-> pats[Len(pats) + 1 - i]], s))

\* MessageParser.parse
parse(pats, mensaje) == Con(Strip(mensaje), LAMBDA s : PrimerPatron(pats, s))

\* an add_pattern that puts the pattern first: what C28 rests on
add_pattern_primero(pats, pat) == <<pat>> \o pats

\* MessageParser.add_pattern
add_pattern(pats, pat) == Append(pats, pat)

-----------------------------------------------------------------------------
(* MessageProcessor.process_message *)

MsgAyuda == "No entendi el mensaje. Ejemplos: ..."
MsgPresupuesto == "Presupuesto {categoria}: Saldo, Periodicidad, Usado"
MsgNoSeEncontro == "No se encontro presupuesto '{categoria}'"

\* {porcentaje_usado:.1f}: tenths of a percentage point
Formato1f(centesimas) == (centesimas + 5) \div 10

\* the text process_message returns, and what it puts into it
Texto(msg, data) == Returned("mensaje", TRUE, msg, data)

\* _handle_gasto / _handle_ingreso: the message of registrar_gasto /
\* registrar_ingreso (an exception of the facade goes on to the caller)
handle_movimiento(w, p, u, tipo, data) ==
    {IF x.resp[p].kind = "raise" THEN x
     ELSE Finish(x, p, Texto(x.resp[p].msg, <<>>)) :
        x \in Run(registrar_movimiento(w, p, u, data.categoria, tipo, data.monto,
                                       data.concepto), p)}

\* _handle_ver_presupuesto: the first entry of obtener_resumen with the
\* categoria of the message
handle_ver_presupuesto(w, p, u, data) ==
    {IF x.resp[p].kind = "raise" THEN x
     ELSE LET resumenes == x.resp[p].data
              es == {i \in DOMAIN resumenes : resumenes[i].categoria = data.categoria}
              r == resumenes[CHOOSE i \in es : \A j \in es : i <= j]
          IN  IF es = {} THEN Finish(x, p, Texto(MsgNoSeEncontro, <<data.categoria>>))
              ELSE Finish(x, p, Texto(MsgPresupuesto,
                                      <<data.categoria, r.saldo, r.periodicidad,
                                        Formato1f(porcentaje_usado(r))>>)) :
        x \in Run(resumen(w, p, u), p)}

\* a dispatcher that records every movement as a gasto: what C29 rests on
process_message_gasto(w, p, pats, u, mensaje) ==
    Con(parse(pats, mensaje), LAMBDA result :
        IF result.action \in {"gasto", "ingreso"}
        THEN handle_movimiento(w, p, u, "gasto", result.data)
        ELSE IF result.action = "ver_presupuesto"
        THEN handle_ver_presupuesto(w, p, u, result.data)
        ELSE {Finish(w, p, Texto(MsgAyuda, <<>>))})

process_message(w, p, pats, u, mensaje) ==
    Con(parse(pats, mensaje), LAMBDA result :
        IF result.action = "gasto"
        THEN handle_movimiento(w, p, u, "gasto", result.data)
        ELSE IF result.action = "ingreso"
        THEN handle_movimiento(w, p, u, "ingreso", result.data)
        ELSE IF result.action = "ver_presupuesto"
        THEN handle_ver_presupuesto(w, p, u, result.data)
        ELSE {Finish(w, p, Texto(MsgAyuda, <<>>))})

-----------------------------------------------------------------------------
(* TelegramHandlers: the dialog of one user.  context.user_data is the      *)
(* variable user_data; what the last update did (the parser asked or not,   *)
(* the facade writes called, the reply) is left in paso.                    *)

\* dict.get of a key that is not there
Falta == "None"
SinMonto == [some |-> FALSE, val |-> 0]

\* context.user_data after clear(): none of the keys state, accion,
\* categoria and monto
Clear == [state |-> Falta, accion |-> None, categoria |-> None, monto |-> SinMonto]

\* no update handled yet
NoPaso == [handler |-> "none", state |-> Falta, parsed |-> FALSE,
           llamadas |-> <<>>, reply |-> "none"]


\* the texts of the two buttons of the reply keyboards that handle_message
\* looks for ("(x)" and "<-" stand for the pictures in front of them)
Cancelar == <<"(x)", " ", "C", "a", "n", "c", "e", "l", "a", "r">>
CambiarCategoria ==
    <<"<-", " ", "C", "a", "m", "b", "i", "a", "r", " ",
      "c", "a", "t", "e", "g", "o", "r", "i'", "a">>
MantenerActual ==
    <<"m", "a", "n", "t", "e", "n", "e", "r", " ", "a", "c", "t", "u", "a", "l">>
Guion == <<"-">>

\* the values of the parameter a of the callback data
TxtGasto == <<"g", "a", "s", "t", "o">>
TxtIngreso == <<"i", "n", "g", "r", "e", "s", "o">>
TxtCrear == <<"c", "r", "e", "a", "r">>
TxtActualizar == <<"a", "c", "t", "u", "a", "l", "i", "z", "a", "r">>
TxtConfirmEliminar ==
    <<"c", "o", "n", "f", "i", "r", "m", "_", "e", "l", "i", "m", "i", "n", "a", "r">>

\* mensaje.replace(".", "").replace(",", "")
SinPuntos(s) == SelectSeq(s, LAMBDA ch : ch \notin {".", ","})

\* the characters str.isdigit() takes: the decimal digits, and digits like
\* the superscript two ("^2"), which int() does not take
DigitosIsdigit == {Digitos[i] : i \in DOMAIN Digitos} \cup {"^2"}

\* str.isdigit()
isdigit(s) == s # <<>> /\ \A i \in DOMAIN s : s[i] \in DigitosIsdigit

\* int(txt) raises ValueError
EnteroFalla(s) == \E i \in DOMAIN s : s[i] = "^2"

\* what an update did: the state it leaves, user_data, whether the text went
\* to process_message, the write calls the handler made on the facade, and
\* the reply
Hecho(w, ud, parsed, llamadas, reply) ==
    [w |-> w, user_data |-> ud, parsed |-> parsed, llamadas |-> llamadas,
     reply |-> reply]

\* an exception leaves the handler: user_data stays as it was
Excepcion(w, ud, error) == Hecho(w, ud, FALSE, <<>>, error)

\* state == "ESPERA_CATEGORIA_NUEVA"
espera_categoria_nueva(w, ud, u, mensaje) ==
    Con(Strip(Lower(mensaje)), LAMBDA categoria :
        IF categoria = <<>> THEN {Hecho(w, ud, FALSE, <<>>, "categoria_vacia")}
        ELSE IF presupuesto_existe(w.db, u, categoria)
        THEN {Hecho(w, ud, FALSE, <<>>, "ya_existe")}
        ELSE {Hecho(w, [ud EXCEPT !.categoria = Some(categoria),
                                  !.state = "ESPERA_MONTO_PRESUPUESTO"],
                    FALSE, <<>>, "escribe_monto")})

\* state == "ESPERA_MONTO_PRESUPUESTO" and state == "ESPERA_MONTO_ACTUALIZAR":
\* the amount has to be digits and greater than 0 to go on to siguiente
espera_monto_positivo(w, ud, mensaje, siguiente) ==
    Con(SinPuntos(mensaje), LAMBDA txt :
        IF ~isdigit(txt) THEN {Hecho(w, ud, FALSE, <<>>, "solo_numeros")}
        ELSE IF EnteroFalla(txt) THEN {Excepcion(w, ud, "ValueError")}
        ELSE IF ValorEntero(txt) <= 0
        THEN {Hecho(w, ud, FALSE, <<>>, "monto_mayor_a_0")}
        ELSE {Hecho(w, [ud EXCEPT !.monto = [some |-> TRUE, val |-> ValorEntero(txt)],
                                  !.state = siguiente],
                    FALSE, <<>>, "periodicidad")})

\* what a step that called a write of the facade did: user_data.clear()
\* comes after the call, so an exception out of the facade leaves user_data
\* as it was
Escrito(x, p, ud, llamada) ==
    IF x.resp[p].kind = "raise" THEN Hecho(x, ud, FALSE, <<llamada>>, "excepcion")
    ELSE Hecho(x, Clear, FALSE, <<llamada>>,
               IF x.resp[p].ok THEN "hecho" ELSE "aviso")

\* state == "ESPERA_PERIODICIDAD"
espera_periodicidad(w, p, ud, u, mensaje) ==
    Con(Strip(Lower(mensaje)), LAMBDA periodicidad :
        IF periodicidad \notin PeriodicidadesValidas
        THEN {Hecho(w, ud, FALSE, <<>>, "opcion_invalida")}
        ELSE IF ~ud.categoria.some THEN {Excepcion(w, ud, "AttributeError")}
        ELSE IF ~ud.monto.some THEN {Excepcion(w, ud, "TypeError")}
        ELSE {Escrito(x, p, ud, [op |-> "crear", categoria |-> ud.categoria.val,
                             monto |-> ud.monto.val]) :
                 x \in Run(crear_presupuesto(w, p, u, ud.categoria.val,
                                             ud.monto.val, periodicidad), p)})

\* state == "ESPERA_PERIODICIDAD_ACTUALIZAR"
espera_periodicidad_actualizar(w, p, ud, u, mensaje) ==
    Con(Strip(Lower(mensaje)), LAMBDA opcion :
        IF opcion \notin PeriodicidadesValidas \cup {MantenerActual}
        THEN {Hecho(w, ud, FALSE, <<>>, "opcion_invalida")}
        ELSE IF ~ud.monto.some THEN {Excepcion(w, ud, "TypeError")}
        ELSE IF ~ud.categoria.some THEN {Excepcion(w, ud, "AttributeError")}
        ELSE {Escrito(x, p, ud, [op |-> "actualizar", categoria |-> ud.categoria.val,
                             monto |-> ud.monto.val]) :
                 x \in Run(actualizar_presupuesto(
                               w, p, u, ud.categoria.val, ud.monto.val,
                               IF opcion = MantenerActual THEN None ELSE Some(opcion)),
                           p)})

\* state in ("ESPERA_MONTO", "ESPERA_CONCEPTO") and the text of the button
\* "Cambiar categoria"
cambiar_categoria(w, ud) == {Hecho(w, Clear, FALSE, <<>>, "elige_categoria")}

\* state == "ESPERA_MONTO": any run of digits goes on, 0 included
espera_monto(w, ud, mensaje) ==
    Con(SinPuntos(mensaje), LAMBDA txt :
        IF ~isdigit(txt) THEN {Hecho(w, ud, FALSE, <<>>, "solo_numeros")}
        ELSE IF EnteroFalla(txt) THEN {Excepcion(w, ud, "ValueError")}
        ELSE {Hecho(w, [ud EXCEPT !.monto = [some |-> TRUE, val |-> ValorEntero(txt)],
                                  !.state = "ESPERA_CONCEPTO"],
                    FALSE, <<>>, "escribe_concepto")})

\* a step that takes the amount 0 to the facade: what C39 rests on
espera_concepto_monto_cero(w, p, ud, u, mensaje) ==
    Con(IF ud.accion.val = TxtGasto THEN "gasto" ELSE "ingreso", LAMBDA tipo :
        {Escrito(x, p, ud, [op |-> tipo, categoria |-> ud.categoria.val,
                        monto |-> ud.monto.val]) :
            x \in Run(registrar_movimiento(w, p, u, ud.categoria.val, tipo,
                                           ud.monto.val, mensaje), p)})

\* state == "ESPERA_CONCEPTO": "not accion or not cat or not monto" resets
\* the flow; registrar_gasto when accion is "gasto", registrar_ingreso
\* otherwise
espera_concepto(w, p, ud, u, mensaje) ==
    IF ~Truthy(ud.accion) \/ ~Truthy(ud.categoria) \/ ~ud.monto.some \/ ud.monto.val = 0
    THEN {Hecho(w, Clear, FALSE, <<>>, "reinicio")}
    ELSE Con(IF ud.accion.val = TxtGasto THEN "gasto" ELSE "ingreso", LAMBDA tipo :
         Con(IF mensaje = Guion THEN <<>> ELSE mensaje, LAMBDA concepto :
             {Escrito(x, p, ud, [op |-> tipo, categoria |-> ud.categoria.val,
                             monto |-> ud.monto.val]) :
                 x \in Run(registrar_movimiento(w, p, u, ud.categoria.val, tipo,
                                                ud.monto.val, concepto), p)}))

\* no state: the text goes to MessageProcessor.process_message
sin_estado(w, p, ud, pats, u, mensaje) ==
    {Hecho(x, ud, TRUE, <<>>, IF x.resp[p].msg = MsgAyuda THEN "ayuda" ELSE "respuesta") :
        x \in process_message(w, p, pats, u, mensaje)}

\* a handle_message that hears the cancel text only when no flow is pending:
\* what C37 rests on
cancelar_sin_estado(ud, mensaje) == mensaje = Cancelar /\ ud.state = Falta

\* the text is the one of the button "Cancelar", in any state
cancelar(ud, mensaje) == mensaje = Cancelar

\* a handle_message that gives every text to the parser first and to the
\* pending step only when the parser has no intent for it: what C38 rests on
primero_el_parser(ud, pats, mensaje) ==
    ud.state = Falta \/ parse(pats, mensaje) # NoIntent

\* the text reaches the end of handle_message, where the parser is
para_el_parser(ud, pats, mensaje) ==
    ud.state \notin {"ESPERA_CATEGORIA_NUEVA", "ESPERA_MONTO_PRESUPUESTO",
                     "ESPERA_PERIODICIDAD", "ESPERA_MONTO_ACTUALIZAR",
                     "ESPERA_PERIODICIDAD_ACTUALIZAR", "ESPERA_MONTO",
                     "ESPERA_CONCEPTO"}

\* TelegramHandlers.handle_message
handle_message(w, p, ud, pats, u, text) ==
    Con(Strip(text), LAMBDA mensaje :
        IF cancelar(ud, mensaje) THEN {Hecho(w, Clear, FALSE, <<>>, "cancelada")}
        ELSE IF para_el_parser(ud, pats, mensaje)
        THEN sin_estado(w, p, ud, pats, u, mensaje)
        ELSE IF ud.state = "ESPERA_CATEGORIA_NUEVA"
        THEN espera_categoria_nueva(w, ud, u, mensaje)
        ELSE IF ud.state = "ESPERA_MONTO_PRESUPUESTO"
        THEN espera_monto_positivo(w, ud, mensaje, "ESPERA_PERIODICIDAD")
        ELSE IF ud.state = "ESPERA_PERIODICIDAD"
        THEN espera_periodicidad(w, p, ud, u, mensaje)
        ELSE IF ud.state = "ESPERA_MONTO_ACTUALIZAR"
        THEN espera_monto_positivo(w, ud, mensaje, "ESPERA_PERIODICIDAD_ACTUALIZAR")
        ELSE IF ud.state = "ESPERA_PERIODICIDAD_ACTUALIZAR"
        THEN espera_periodicidad_actualizar(w, p, ud, u, mensaje)
        ELSE IF mensaje = CambiarCategoria THEN cambiar_categoria(w, ud)
        ELSE IF ud.state = "ESPERA_MONTO" THEN espera_monto(w, ud, mensaje)
        ELSE espera_concepto(w, p, ud, u, mensaje))

\* s.split(sep)
RECURSIVE Split(_, _)
Split(s, sep) ==
    IF \A i \in DOMAIN s : s[i] # sep THEN <<s>>
    ELSE Con(CHOOSE i \in DOMAIN s : s[i] = sep /\ \A j \in 1..(i - 1) : s[j] # sep,
             LAMBDA i : <<SubSeq(s, 1, i - 1)>> \o Split(SubSeq(s, i + 1, Len(s)), sep))

\* params.get(k) of dict(part.split("=", 1) for part in data.split("|")
\* if "=" in part): the value of the last part with the key k, or None
Param(data, k) ==
    Con(Split(data, "|"), LAMBDA parts :
    Con({i \in DOMAIN parts : Len(parts[i]) > Len(k) /\ SubSeq(parts[i], 1, Len(k)) = k
                              /\ parts[i][Len(k) + 1] = "="}, LAMBDA con :
        IF con = {} THEN None
        ELSE Con(parts[CHOOSE i \in con : \A j \in con : j <= i], LAMBDA part :
                 Some(SubSeq(part, Len(k) + 2, Len(part))))))

\* a branch of handle_callback that answers and leaves user_data alone
solo_respuesta(w, ud, reply) == {Hecho(w, ud, FALSE, <<>>, reply)}

\* a branch "crear" that stores the accion and leaves the state where it
\* is: what C36 rests on
callback_crear_sin_estado(w, ud) ==
    {Hecho(w, [ud EXCEPT !.accion = Some(TxtCrear)], FALSE, <<>>, "escribe_categoria")}

\* accion == "crear"
callback_crear(w, ud) ==
    {Hecho(w, [ud EXCEPT !.accion = Some(TxtCrear), !.state = "ESPERA_CATEGORIA_NUEVA"],
           FALSE, <<>>, "escribe_categoria")}

\* accion == "actualizar", and accion in ("gasto", "ingreso"): without a
\* categoria the keyboard of the categories, with one the flow starts
callback_flujo(w, ud, accion, categoria, state) ==
    IF ~Truthy(categoria) THEN solo_respuesta(w, ud, "elige_categoria")
    ELSE {Hecho(w, [ud EXCEPT !.accion = Some(accion), !.categoria = categoria,
                              !.state = state],
                FALSE, <<>>, "escribe_monto")}

\* accion == "confirm_eliminar"
callback_confirm_eliminar(w, p, ud, u, categoria) ==
    IF ~Truthy(categoria) THEN solo_respuesta(w, ud, "falta_categoria")
    ELSE {Hecho(x, ud, FALSE, <<[op |-> "eliminar", categoria |-> categoria.val]>>,
                IF x.resp[p].kind = "raise" THEN "excepcion"
                ELSE IF x.resp[p].ok THEN "hecho" ELSE "aviso") :
            x \in Run(eliminar_presupuesto(w, p, u, categoria.val), p)}

\* TelegramHandlers.handle_callback
handle_callback(w, p, ud, u, data) ==
    Con(Param(data, <<"a">>), LAMBDA a :
    Con(Param(data, <<"c">>), LAMBDA c :
        IF ~a.some THEN solo_respuesta(w, ud, "menu")
        ELSE IF a.val = TxtCrear THEN callback_crear(w, ud)
        ELSE IF a.val = TxtActualizar
        THEN callback_flujo(w, ud, TxtActualizar, c, "ESPERA_MONTO_ACTUALIZAR")
        ELSE IF a.val \in {TxtGasto, TxtIngreso}
        THEN callback_flujo(w, ud, a.val, c, "ESPERA_MONTO")
        ELSE IF a.val = TxtConfirmEliminar
        THEN callback_confirm_eliminar(w, p, ud, u, c)
        ELSE solo_respuesta(w, ud, "menu")))

-----------------------------------------------------------------------------
(* What the callers of the facade have seen of each key (user, normalized   *)
(* category): the successful creations, the successful recordings, and the  *)
(* recordings since the last successful creation or deletion                *)

Comida == <<"c", "o", "m", "i", "d", "a">>

\* the categories of the calls that drive SpecClaves, and their keys
CategoriasClaves == {MotoLower, MotoUpper, Comida}
Claves == {<<u, Normalizar(c)>> : u \in Usuarios, c \in CategoriasClaves}

SinAnotar == [k \in Claves |-> [creados |-> 0, registrados |-> 0, desde |-> <<>>]]

-----------------------------------------------------------------------------

Init ==
    /\ db = EmptyDb
    /\ tx = EmptyDb
    /\ writer = NoWriter
    /\ req = [p \in Procs |-> IdleReq]
    /\ resp = [p \in Procs |-> NoResp]
    /\ calls = 0
    /\ patterns = PatronesDefecto
    /\ anotados = SinAnotar
    /\ user_data = Clear
    /\ paso = NoPaso

-----------------------------------------------------------------------------
(* Spec: the facade calls of the transport, one at a time, each run to its  *)
(* end.  The reply goes back to the caller and the tables stay: the reply   *)
(* of a call is a function of the tables before it and of its arguments     *)
(* (the operators Crear .. Resumen below), so Spec follows the tables only. *)

Serial == "p1"

\* the reply of a call that has run to its end
Reply(w) == w.resp[Serial]

\* the outcomes (tables and reply) of each facade call on the current state
Crear(u, c, m, per) == Run(crear_presupuesto(World, Serial, u, c, m, per), Serial)
Actualizar(u, c, m, per) ==
    Run(actualizar_presupuesto(World, Serial, u, c, m, per), Serial)
Eliminar(u, c) == Run(eliminar_presupuesto(World, Serial, u, c), Serial)
Registrar(u, c, tipo, m, concepto) ==
    Run(registrar_movimiento(World, Serial, u, c, tipo, m, concepto), Serial)
Existe(u, c) == Run(existe(World, Serial, u, c), Serial)
Historial(u, c) == Run(historial(World, Serial, u, c), Serial)
Resumen(u) == Run(resumen(World, Serial, u), Serial)

\* the outcome w happens
Serve(w) ==
    /\ db' = w.db
    /\ tx' = w.tx
    /\ writer' = w.writer
    /\ req' = w.req
    /\ UNCHANGED <<resp, calls, patterns, anotados, user_data, paso>>

CrearPresupuesto(u, c, m, per) == \E w \in Crear(u, c, m, per) : Serve(w)

ActualizarPresupuesto(u, c, m, per) == \E w \in Actualizar(u, c, m, per) : Serve(w)

EliminarPresupuesto(u, c) == \E w \in Eliminar(u, c) : Serve(w)

RegistrarGasto(u, c, m, concepto) ==
    \E w \in Registrar(u, c, "gasto", m, concepto) : Serve(w)

RegistrarIngreso(u, c, m, concepto) ==
    \E w \in Registrar(u, c, "ingreso", m, concepto) : Serve(w)

PresupuestoExiste(u, c) == \E w \in Existe(u, c) : Serve(w)

ObtenerHistorial(u, c) == \E w \in Historial(u, c) : Serve(w)

ObtenerResumen(u) == \E w \in Resumen(u) : Serve(w)

\* the arguments of the calls that drive Spec: of each kind of argument the
\* values that lead to different tables (the properties below put the wider
\* sets Categorias, Montos, Periodicidades and Conceptos to every state)
CategoriasPaso == {MotoLower, MotoUpper}
CategoriasCrearPaso == CategoriasPaso \cup {Blank}
MontosPresupuestoPaso == {0, 50000, 100000}
MontosGastoPaso == {0, 15000}
MontosIngresoPaso == {0, 5000}
ConceptosPaso == {Gasolina}

Next ==
    \/ \E u \in Usuarios, c \in CategoriasCrearPaso, m \in MontosPresupuestoPaso,
          per \in Periodicidades : CrearPresupuesto(u, c, m, per)
    \/ \E u \in Usuarios, c \in CategoriasPaso, m \in MontosPresupuestoPaso,
          per \in PeriodicidadesOpt : ActualizarPresupuesto(u, c, m, per)
    \/ \E u \in Usuarios, c \in CategoriasPaso : EliminarPresupuesto(u, c)
    \/ \E u \in Usuarios, c \in CategoriasPaso, m \in MontosGastoPaso,
          concepto \in ConceptosPaso : RegistrarGasto(u, c, m, concepto)
    \/ \E u \in Usuarios, c \in CategoriasPaso, m \in MontosIngresoPaso,
          concepto \in ConceptosPaso : RegistrarIngreso(u, c, m, concepto)
    \/ \E u \in Usuarios, c \in CategoriasPaso : PresupuestoExiste(u, c)
    \/ \E u \in Usuarios, c \in CategoriasPaso : ObtenerHistorial(u, c)
    \/ \E u \in Usuarios : ObtenerResumen(u)

Spec == Init /\ [][Next]_vars

-----------------------------------------------------------------------------
(* SpecConc: the facade calls of two clients of the same database file      *)
(* (each call opens a connection of its own), interleaved statement by      *)
(* statement, with storage failures; each client leaves its reply in resp.  *)

Become(w) ==
    /\ db' = w.db
    /\ tx' = w.tx
    /\ writer' = w.writer
    /\ req' = w.req
    /\ resp' = w.resp
    /\ UNCHANGED <<patterns, anotados, user_data, paso>>

\* the inputs of the concurrent calls
CategoriasConc == {MotoLower, MotoUpper}
MontosPresupuestoConc == {100000}
MontosMovimientoConc == {5000}
PeriodicidadesConc == {AnualCap}
PeriodicidadesOptConc == {None}
ConceptosConc == {<<>>}

Idle(p) == req[p].pc = "idle"

\* client p enters a facade call and executes it up to its first statement
\* on the store
Enter(p, ws) ==
    /\ Idle(p)
    /\ calls < MaxCalls
    /\ calls' = calls + 1
    /\ \E w \in ws : Become(w)

CallCrear(p) ==
    \E u \in Usuarios, c \in CategoriasConc, m \in MontosPresupuestoConc,
       per \in PeriodicidadesConc :
       Enter(p, crear_presupuesto(World, p, u, c, m, per))

CallActualizar(p) ==
    \E u \in Usuarios, c \in CategoriasConc, m \in MontosPresupuestoConc,
       per \in PeriodicidadesOptConc :
       Enter(p, actualizar_presupuesto(World, p, u, c, m, per))

CallEliminar(p) ==
    \E u \in Usuarios, c \in CategoriasConc :
       Enter(p, eliminar_presupuesto(World, p, u, c))

CallRegistrar(p) ==
    \E u \in Usuarios, c \in CategoriasConc, tipo \in Tipos,
       m \in MontosMovimientoConc, concepto \in ConceptosConc :
       Enter(p, registrar_movimiento(World, p, u, c, tipo, m, concepto))

CallHistorial(p) ==
    \E u \in Usuarios, c \in CategoriasConc : Enter(p, historial(World, p, u, c))

CallResumen(p) ==
    \E u \in Usuarios : Enter(p, resumen(World, p, u))

\* client p executes its next statement
Execution(p) ==
    /\ ~Idle(p)
    /\ UNCHANGED calls
    /\ \E w \in Statement(World, p) : Become(w)

\* the statement client p is at fails
Failure(p) ==
    /\ ~Idle(p)
    /\ UNCHANGED calls
    /\ Become(storage_error(World, p))

\* client p has waited for the write lock for the timeout of its connection
Locked(p) ==
    /\ ~Idle(p)
    /\ req[p].pc \in Escrituras
    /\ ~CanWrite(World, p)
    /\ UNCHANGED calls
    /\ Become(database_locked(World, p))

NextConc ==
    \E p \in Procs :
        \/ CallCrear(p)
        \/ CallActualizar(p)
        \/ CallEliminar(p)
        \/ CallRegistrar(p)
        \/ CallHistorial(p)
        \/ CallResumen(p)
        \/ Execution(p)
        \/ Failure(p)
        \/ Locked(p)

SpecConc == Init /\ [][NextConc]_vars

-----------------------------------------------------------------------------
(* Properties of the store *)

\* the rows of table presupuestos of d under the key (u, lower().strip() of c)
Filas(d, u, c) ==
    {r \in d.presupuestos : r.usuario_id = u /\ Normalizar(r.categoria) = Normalizar(c)}

\* the rows of table movimientos of d under the key (u, lower().strip() of c)
Apuntes(d, u, c) ==
    {r \in d.movimientos : r.usuario_id = u /\ Normalizar(r.categoria) = Normalizar(c)}

\* C1: in every reachable state of the store, whatever calls the clients
\* have made and however they interleaved, there is at most one row of
\* presupuestos for each pair (usuario_id, normalized categoria).
C1_UnPresupuestoPorClave ==
    \A u \in Usuarios, c \in Categorias : Cardinality(Filas(db, u, c)) <= 1

\* two crear of the same key met: one of them was stopped by the constraint
\* and the key has its one row
C1_Witness ==
    \E p \in Procs :
        /\ resp[p] = Raised("crear", "IntegrityError", "crear_insert")
        /\ Cardinality(Filas(db, "u1", MotoLower)) = 1

\* C2: after a crear_presupuesto that succeeds, presupuesto_existe is true
\* for its key; a second crear_presupuesto of the same key, whatever its
\* amount and periodicity, returns False and leaves the rows of presupuestos
\* (monto, periodicidad and creado_en of the first budget) as they were.
C2_CrearDosVeces ==
    \A u \in Usuarios, c \in CategoriasCrear, m \in MontosPresupuesto,
       per \in Periodicidades :
        \A w \in Crear(u, c, m, per) :
            Reply(w).ok =>
                /\ \A x \in Run(existe(w, Serial, u, c), Serial) : Reply(x).ok
                /\ \A c2 \in Categorias, m2 \in MontosPresupuesto,
                      per2 \in Periodicidades :
                        Normalizar(c2) = Normalizar(c) =>
                            LET again == Run(crear_presupuesto(w, Serial, u, c2,
                                                               m2, per2), Serial)
                            IN  /\ again # {}
                                /\ \A x \in again :
                                    /\ Reply(x).kind = "return"
                                    /\ ~Reply(x).ok
                                    /\ x.db = w.db

\* the budget of "  Moto " is there from a first crear, and a second crear,
\* with "MOTO " and another amount, is answered "Ya existe"
C2_Witness ==
    /\ \E r \in db.presupuestos :
          r.usuario_id = "u1" /\ r.categoria = MotoLower /\ r.monto = 100000
    /\ \E w \in Crear("u1", MotoUpper, 50000, AnualCap) :
          Reply(w) = Returned("crear", FALSE, MsgYaExiste, <<>>) /\ w.db = db

\* C3: crear_presupuesto checks and inserts as one atomic unit: of two
\* concurrent calls for the same key the loser returns False, it does not
\* fail in any other way.  (The code checks on a connection of its own
\* before the INSERT, so the loser can pass the check and meet the UNIQUE
\* constraint: sqlite3.IntegrityError leaves the call.)
C3_CrearAtomico ==
    \A p \in Procs :
        resp[p].op = "crear" /\ resp[p].kind = "raise" =>
            resp[p].msg \in {"StorageError", "OperationalError"}

\* C4: eliminar_presupuesto on a key that has a budget returns True and
\* removes the row of the budget and every movement of the key; right after
\* it presupuesto_existe is false and the history of the key says "No existe
\* presupuesto".  (With a categoria that is not already lowercase and
\* stripped the code's DELETEs match nothing: see C10.)
C4_EliminarBorraTodo ==
    \A u \in Usuarios, c \in Categorias :
        Filas(db, u, c) # {} =>
            /\ Eliminar(u, c) # {}
            /\ \A w \in Eliminar(u, c) :
                /\ Reply(w) = Returned("eliminar", TRUE, MsgEliminado, <<>>)
                /\ Filas(w.db, u, c) = {}
                /\ Apuntes(w.db, u, c) = {}
                /\ \A x \in Run(existe(w, Serial, u, c), Serial) : ~Reply(x).ok
                /\ \A x \in Run(historial(w, Serial, u, c), Serial) :
                      Reply(x) = Returned("historial", FALSE, MsgNoExiste, <<>>)

\* C5: the cascade of eliminar_presupuesto is all or nothing.  In every step,
\* a storage failure included: a failure of eliminar_presupuesto changes
\* nothing in the store; if the row of a budget leaves the store, no movement
\* of its key stays; and if a movement leaves the store, so does the row of
\* its budget.
C5_Step ==
    /\ (\E p \in Procs : /\ req[p].pc # "idle" /\ req[p].op = "eliminar"
                          /\ req'[p].pc = "idle" /\ resp'[p].kind = "raise")
          => db' = db
    /\ \A u \in Usuarios, c \in Categorias :
        /\ Filas(db, u, c) # {} /\ Filas(db', u, c) = {} => Apuntes(db', u, c) = {}
        /\ Apuntes(db, u, c) \ db'.movimientos # {} => Filas(db', u, c) = {}

C5_CascadaAtomica == [][C5_Step]_vars

\* eliminar_presupuesto failed between its two DELETE statements, and the
\* budget and its movement are in the store
C5_Witness ==
    \E p \in Procs :
        /\ resp[p] = Raised("eliminar", "StorageError", "eliminar_movimientos")
        /\ Filas(db, "u1", MotoLower) # {}
        /\ Apuntes(db, "u1", MotoLower) # {}

\* the amounts that are not positive
NoPositivos == {m \in Montos : m <= 0}

\* the call returned False with the message msg and the tables are as before
Rechazo(ws, op, msg) ==
    /\ ws # {}
    /\ \A w \in ws : Reply(w) = Returned(op, FALSE, msg, <<>>) /\ w.db = db

\* C6 as stated: with an amount <= 0, crear_presupuesto,
\* actualizar_presupuesto, registrar_gasto and registrar_ingreso return
\* False with "El monto debe ser mayor a 0" and leave the tables as they
\* were, whether or not the budget exists.
C6_MontoSiempre ==
    \A u \in Usuarios, m \in NoPositivos :
        /\ \A c \in CategoriasCrear, per \in Periodicidades :
              Rechazo(Crear(u, c, m, per), "crear", MsgMonto)
        /\ \A c \in Categorias, per \in PeriodicidadesOpt :
              Rechazo(Actualizar(u, c, m, per), "actualizar", MsgMonto)
        /\ \A c \in Categorias, tipo \in Tipos, concepto \in Conceptos :
              Rechazo(Registrar(u, c, tipo, m, concepto), tipo, MsgMonto)

\* C6: with an amount <= 0, crear_presupuesto, actualizar_presupuesto,
\* registrar_gasto and registrar_ingreso return False and leave the tables
\* as they were, whether or not the budget exists.  The message is "El monto
\* debe ser mayor a 0", except where an earlier check of the operation
\* answers first: crear_presupuesto with a blank categoria says "La
\* categoria no puede estar vacia", and registrar_gasto / registrar_ingreso
\* on a key without budget say "No existe presupuesto ... Crealo primero".
C6_MontoRechazado ==
    \A u \in Usuarios, m \in NoPositivos :
        /\ \A c \in CategoriasCrear, per \in Periodicidades :
              Rechazo(Crear(u, c, m, per), "crear",
                      IF Strip(c) = <<>> THEN MsgCategoriaVacia ELSE MsgMonto)
        /\ \A c \in Categorias, per \in PeriodicidadesOpt :
              Rechazo(Actualizar(u, c, m, per), "actualizar", MsgMonto)
        /\ \A c \in Categorias, tipo \in Tipos, concepto \in Conceptos :
              Rechazo(Registrar(u, c, tipo, m, concepto), tipo,
                      IF Filas(db, u, c) = {} THEN MsgCrealoPrimero ELSE MsgMonto)

\* u1 has a budget with a movement and u2 has none: an amount of 0 is
\* refused for both, with the amount message for u1
C6_Witness ==
    /\ Filas(db, "u1", MotoLower) # {}
    /\ Apuntes(db, "u1", MotoLower) # {}
    /\ Filas(db, "u2", MotoLower) = {}
    /\ Rechazo(Registrar("u1", MotoUpper, "gasto", 0, Gasolina), "gasto", MsgMonto)
    /\ Rechazo(Actualizar("u1", MotoLower, -5000, None), "actualizar", MsgMonto)
    /\ Rechazo(Registrar("u2", MotoUpper, "gasto", 0, Gasolina), "gasto",
               MsgCrealoPrimero)

\* C7: registrar_gasto and registrar_ingreso on a key without budget return
\* False with "No existe presupuesto ... Crealo primero con /crear" and add
\* no row to movimientos, whatever the amount and the concepto.
C7_SinPresupuesto ==
    \A u \in Usuarios, c \in Categorias, tipo \in Tipos, m \in MontosMovimiento,
       concepto \in Conceptos :
        Filas(db, u, c) = {} =>
            Rechazo(Registrar(u, c, tipo, m, concepto), tipo, MsgCrealoPrimero)

\* u1 has a budget and u2 has none: a gasto of u2 is answered "Crealo
\* primero" and the tables stay
C7_Witness ==
    /\ Filas(db, "u1", MotoLower) # {}
    /\ Filas(db, "u2", MotoLower) = {}
    /\ Rechazo(Registrar("u2", MotoLower, "gasto", 15000, Gasolina), "gasto",
               MsgCrealoPrimero)

\* the sum of the amounts of the rows of movimientos of d with the ids 1..n
\* that are of the key (u, c) and of the tipo
RECURSIVE Total(_, _, _, _, _)
Total(d, u, c, tipo, n) ==
    IF n = 0 THEN 0
    ELSE LET mine == {r \in d.movimientos :
                         /\ r.id = n /\ r.usuario_id = u /\ r.categoria = c
                         /\ r.tipo = tipo}
         IN  Total(d, u, c, tipo, n - 1)
             + (IF mine = {} THEN 0 ELSE (CHOOSE r \in mine : TRUE).monto)

\* C8: obtener_resumen has one entry for each budget of the user, and in it
\* saldo = monto_inicial + ingresos - gastos, where monto_inicial is the
\* monto stored for the budget and ingresos and gastos are the sums over
\* exactly the movements stored under its key; a budget of 100000 with one
\* gasto of 15000 and one ingreso of 5000 has the saldo 90000.
C8_Saldo ==
    \A u \in Usuarios :
        /\ Resumen(u) # {}
        /\ \A w \in Resumen(u) :
            LET entradas == Reply(w).data
            IN  /\ Reply(w).kind = "return"
                /\ Len(entradas) = Cardinality({r \in db.presupuestos : r.usuario_id = u})
                /\ \A r \in db.presupuestos :
                      r.usuario_id = u =>
                          \E i \in DOMAIN entradas :
                              /\ entradas[i].categoria = r.categoria
                              /\ entradas[i].monto_inicial = r.monto
                              /\ entradas[i].saldo =
                                    r.monto
                                    + Total(db, u, r.categoria, "ingreso", db.seqM)
                                    - Total(db, u, r.categoria, "gasto", db.seqM)
                              /\ (/\ r.monto = 100000
                                  /\ {<<x.tipo, x.monto>> : x \in Apuntes(db, u, r.categoria)}
                                        = {<<"gasto", 15000>>, <<"ingreso", 5000>>}
                                  /\ Cardinality(Apuntes(db, u, r.categoria)) = 2
                                  => entradas[i].saldo = 90000)

\* the budget of 100000 of u1 has one gasto of 15000 and one ingreso of 5000,
\* and the resumen of u1 gives the saldo 90000
C8_Witness ==
    /\ \E r \in Filas(db, "u1", MotoLower) : r.monto = 100000
    /\ {<<x.tipo, x.monto>> : x \in Apuntes(db, "u1", MotoLower)}
          = {<<"gasto", 15000>>, <<"ingreso", 5000>>}
    /\ Cardinality(Apuntes(db, "u1", MotoLower)) = 2
    /\ \E w \in Resumen("u1") :
          Len(Reply(w).data) = 1 /\ Reply(w).data[1].saldo = 90000

\* the amounts that are positive
PositivosMovimiento == {m \in MontosMovimiento : m > 0}
PositivosPresupuesto == {m \in MontosPresupuesto : m > 0}

\* C9: lower().strip() is idempotent, and every variant of a categoria
\* addresses the one budget of its key: where "  Moto ", "moto" or "MOTO "
\* has a budget, presupuesto_existe is true for each of the three;
\* registrar_gasto / registrar_ingreso with any of them stores one row under
\* the categoria of the budget; obtener_historial with any of them returns
\* all the movements of the budget; and the resumen of the user counts the
\* movement so recorded in the entry of the budget.
C9_Variantes ==
    /\ \A c \in CategoriasCrear : Normalizar(Normalizar(c)) = Normalizar(c)
    /\ \A u \in Usuarios, c \in Categorias :
        \A b \in Filas(db, u, c) :
            \A c2 \in Categorias :
                /\ \A w \in Existe(u, c2) : Reply(w).ok
                /\ \A w \in Historial(u, c2) :
                      /\ Reply(w).kind = "return"
                      /\ Reply(w).msg # MsgNoExiste
                      /\ {x.id : x \in Apuntes(db, u, b.categoria)}
                            = {Reply(w).data[i].id : i \in DOMAIN Reply(w).data}
                /\ \A tipo \in Tipos, m \in PositivosMovimiento, concepto \in Conceptos :
                    \A w \in Registrar(u, c2, tipo, m, concepto) :
                        /\ Reply(w) = Returned(tipo, TRUE, MsgRegistrado(tipo), <<>>)
                        /\ w.db.presupuestos = db.presupuestos
                        /\ \E x \in w.db.movimientos :
                              /\ w.db.movimientos = db.movimientos \cup {x}
                              /\ x \notin db.movimientos
                              /\ x.usuario_id = u
                              /\ x.categoria = b.categoria
                              /\ x.tipo = tipo /\ x.monto = m
                              /\ \A c3 \in Categorias :
                                  \A y \in Run(historial(w, Serial, u, c3), Serial) :
                                      /\ Reply(y).ok
                                      /\ \E i \in DOMAIN Reply(y).data :
                                            Reply(y).data[i].id = x.id
                              /\ \A y \in Run(resumen(w, Serial, u), Serial) :
                                  \E i \in DOMAIN Reply(y).data :
                                      /\ Reply(y).data[i].categoria = b.categoria
                                      /\ Reply(y).data[i].gastos =
                                            Total(db, u, b.categoria, "gasto", db.seqM)
                                            + (IF tipo = "gasto" THEN m ELSE 0)
                                      /\ Reply(y).data[i].ingresos =
                                            Total(db, u, b.categoria, "ingreso", db.seqM)
                                            + (IF tipo = "ingreso" THEN m ELSE 0)

\* the budget of u1 was created and has a movement, and a gasto recorded
\* with "MOTO " goes under "moto" and shows in the history asked with
\* "  Moto "
C9_Witness ==
    /\ Filas(db, "u1", MotoPadded) # {}
    /\ Apuntes(db, "u1", MotoPadded) # {}
    /\ \E w \in Registrar("u1", MotoUpper, "gasto", 15000, Gasolina) :
        /\ Reply(w).ok
        /\ \E x \in w.db.movimientos \ db.movimientos : x.categoria = MotoLower
        /\ \E y \in Run(historial(w, Serial, "u1", MotoPadded), Serial) :
              Len(Reply(y).data) = Cardinality(Apuntes(db, "u1", MotoLower)) + 1

\* C10: the store normalizes the categoria before every write:
\* actualizar_presupuesto and eliminar_presupuesto with any variant of the
\* categoria of a budget return True and change, respectively remove, that
\* budget (and, for eliminar, its movements); True is never returned while
\* the budget stays as it was.  (The code normalizes for the existence check
\* only: its UPDATE and its DELETEs compare with the categoria as given.)
C10_EscriturasNormalizadas ==
    \A u \in Usuarios, c \in Categorias :
        Filas(db, u, c) # {} =>
            /\ \A m \in PositivosPresupuesto, per \in PeriodicidadesOpt :
                \A w \in Actualizar(u, c, m, per) :
                    Reply(w).ok =>
                        \A r \in Filas(w.db, u, c) : r.monto = m
            /\ \A w \in Eliminar(u, c) :
                Reply(w).ok => Filas(w.db, u, c) = {} /\ Apuntes(w.db, u, c) = {}

\* every row of movimientos of the tables before is in the tables after
Conserva(before, after) == before.movimientos \subseteq after.movimientos

\* in a step each row of movimientos stays as it is or leaves together with
\* the budget row of its key, its id gone with it
C11_Step ==
    /\ \A r \in db.movimientos :
          \/ r \in db'.movimientos
          \/ /\ Filas(db, r.usuario_id, r.categoria) # {}
             /\ Filas(db', r.usuario_id, r.categoria) = {}
             /\ \A x \in db'.movimientos : x.id # r.id

\* no outcome of crear_presupuesto, actualizar_presupuesto, registrar_gasto
\* or registrar_ingreso lacks a row of movimientos that was there
C11_Calls ==
    \A u \in Usuarios :
        /\ \A c \in CategoriasCrear, m \in MontosPresupuesto, per \in Periodicidades :
              \A w \in Crear(u, c, m, per) : Conserva(db, w.db)
        /\ \A c \in Categorias, m \in MontosPresupuesto, per \in PeriodicidadesOpt :
              \A w \in Actualizar(u, c, m, per) : Conserva(db, w.db)
        /\ \A c \in Categorias, tipo \in Tipos, m \in MontosMovimiento,
              concepto \in Conceptos :
              \A w \in Registrar(u, c, tipo, m, concepto) : Conserva(db, w.db)

\* C11: movements are append-only.  In every step each row of movimientos
\* either stays, identical in id, usuario_id, categoria, tipo, monto,
\* concepto and fecha, or leaves together with the budget row of its key
\* (the cascade of eliminar_presupuesto); and no outcome of crear_presupuesto,
\* actualizar_presupuesto, registrar_gasto or registrar_ingreso modifies or
\* removes a row of movimientos.
C11_SoloAgregar == [][C11_Step]_vars /\ []C11_Calls

\* the budget of u1 has two movements, the first of them from before the
\* second was recorded, and an update of the budget succeeds and leaves both
C11_Witness ==
    /\ \E r1, r2 \in Apuntes(db, "u1", MotoLower) : r1.id = 1 /\ r2.id = 2
    /\ \E w \in Actualizar("u1", MotoLower, 50000, None) :
          Reply(w).ok /\ w.db.movimientos = db.movimientos

\* the update of the budget row before into the row after that C12 describes
Actualizada(before, after, m, per) ==
    /\ after.id = before.id
    /\ after.usuario_id = before.usuario_id
    /\ after.categoria = before.categoria
    /\ after.creado_en = before.creado_en
    /\ after.monto = m
    /\ after.periodicidad \in
          (IF per.some THEN {per.val, Lower(per.val)} ELSE {before.periodicidad})

\* C12: actualizar_presupuesto on a key that has a budget, with a positive
\* amount and a periodicity that is omitted or valid, returns True and sets
\* the stored monto to the given one; it sets the periodicidad only when one
\* is given and keeps the stored one when it is omitted; id, usuario_id,
\* categoria and creado_en stay.  (With a categoria that is not already
\* lowercase and stripped the code's UPDATE matches nothing: see C10.)
C12_Actualizar ==
    \A u \in Usuarios, c \in Categorias, m \in PositivosPresupuesto,
       per \in {None, Some(AnualCap)} :
        \A b \in Filas(db, u, c) :
            /\ Actualizar(u, c, m, per) # {}
            /\ \A w \in Actualizar(u, c, m, per) :
                /\ Reply(w) = Returned("actualizar", TRUE, MsgActualizado, <<>>)
                /\ \E a \in w.db.presupuestos :
                    /\ Actualizada(b, a, m, per)
                    /\ w.db.presupuestos = (db.presupuestos \ {b}) \cup {a}

\* C13: actualizar_presupuesto with a positive amount rejects every given
\* periodicidad that is not diario, semanal, mensual or anual, the empty
\* string included, with "Periodicidad debe ser: ..." and no change of the
\* tables; on a key without budget it returns False with "No existe
\* presupuesto", a message that is neither of the two validation messages.
\* (The code tests `periodicidad and ...`, so the empty string passes as if
\* no periodicidad were given.)
C13_PeriodicidadInvalida ==
    /\ MsgNoExiste \notin {MsgMonto, MsgPeriodicidad}
    /\ \A u \in Usuarios, c \in Categorias, m \in PositivosPresupuesto :
        /\ \A per \in PeriodicidadesOpt :
              per.some /\ Lower(per.val) \notin PeriodicidadesValidas =>
                  Rechazo(Actualizar(u, c, m, per), "actualizar", MsgPeriodicidad)
        /\ \A per \in {None, Some(AnualCap)} :
              Filas(db, u, c) = {} =>
                  Rechazo(Actualizar(u, c, m, per), "actualizar", MsgNoExiste)

\* the messages of the validations of crear_presupuesto
MsgValidaciones == {MsgCategoriaVacia, MsgMonto, MsgPeriodicidad}

\* C14: crear_presupuesto rejects a categoria that is blank after strip(),
\* an amount <= 0 and a periodicidad that is not diario, semanal, mensual or
\* anual (in any letter case), each with a validation message (its own when
\* it is the only one that fails) and without touching the tables; when the
\* validations pass and the key has a budget, it returns False with "Ya
\* existe un presupuesto", which is none of the validation messages, and the
\* tables stay.
C14_Validaciones ==
    /\ MsgYaExiste \notin MsgValidaciones
    /\ \A u \in Usuarios, c \in CategoriasCrear, m \in MontosPresupuesto,
          per \in Periodicidades :
        LET blank == Strip(c) = <<>>
            nopos == m <= 0
            badper == Lower(per) \notin PeriodicidadesValidas
            calls1 == Crear(u, c, m, per)
        IN  /\ blank \/ nopos \/ badper =>
                /\ calls1 # {}
                /\ \A w \in calls1 :
                    /\ Reply(w).kind = "return" /\ ~Reply(w).ok
                    /\ Reply(w).msg \in MsgValidaciones
                    /\ w.db = db
                    /\ blank /\ ~nopos /\ ~badper => Reply(w).msg = MsgCategoriaVacia
                    /\ ~blank /\ nopos /\ ~badper => Reply(w).msg = MsgMonto
                    /\ ~blank /\ ~nopos /\ badper => Reply(w).msg = MsgPeriodicidad
            /\ ~blank /\ ~nopos /\ ~badper /\ Filas(db, u, c) # {} =>
                Rechazo(calls1, "crear", MsgYaExiste)

\* u1 has a budget and u2 has none: a crear of u1 with another variant of
\* the categoria is a conflict, a crear of u2 with "quincenal" and one with a
\* blank categoria are validation failures
C14_Witness ==
    /\ Filas(db, "u1", MotoLower) # {}
    /\ Filas(db, "u2", MotoLower) = {}
    /\ Rechazo(Crear("u1", MotoPadded, 50000, AnualCap), "crear", MsgYaExiste)
    /\ Rechazo(Crear("u2", MotoLower, 50000, Quincenal), "crear", MsgPeriodicidad)
    /\ Rechazo(Crear("u2", Blank, 50000, AnualCap), "crear", MsgCategoriaVacia)

\* C15: whatever the letter case of the periodicidad given to
\* crear_presupuesto and actualizar_presupuesto, the periodicidad stored for
\* every budget is one of diario, semanal, mensual, anual, in lowercase.
\* (crear_presupuesto stores periodicidad.lower(); actualizar_presupuesto
\* validates periodicidad.lower() and stores the periodicidad as given.)
C15_PeriodicidadCanonica ==
    \A r \in db.presupuestos : r.periodicidad \in PeriodicidadesValidas

\* C16: every stored movement has the tipo gasto or ingreso and a monto > 0,
\* every stored budget has a monto > 0, and the rows that registrar_gasto
\* adds are of tipo gasto, those that registrar_ingreso adds of tipo ingreso.
C16_TipoYMonto ==
    /\ \A r \in db.movimientos : r.tipo \in {"gasto", "ingreso"} /\ r.monto > 0
    /\ \A r \in db.presupuestos : r.monto > 0
    /\ \A u \in Usuarios, c \in Categorias, tipo \in Tipos, m \in MontosMovimiento,
          concepto \in Conceptos :
        \A w \in Registrar(u, c, tipo, m, concepto) :
            \A x \in w.db.movimientos \ db.movimientos :
                x.tipo = tipo /\ x.monto = m /\ m > 0

\* the budget of u1 has a gasto and an ingreso
C16_Witness ==
    /\ \E r \in Apuntes(db, "u1", MotoLower) : r.tipo = "gasto" /\ r.monto = 15000
    /\ \E r \in Apuntes(db, "u1", MotoLower) : r.tipo = "ingreso" /\ r.monto = 5000
    /\ \E r \in Filas(db, "u1", MotoLower) : r.monto = 50000

\* C17: obtener_historial has three outcomes and changes nothing: (False,
\* "No existe presupuesto", empty) when the key has no budget; (False, "No
\* hay movimientos registrados", empty), another message, when the budget
\* has no movement; otherwise (True, message, the movements of the key, each
\* of them once).
C17_Historial ==
    /\ MsgNoExiste # MsgNoHayMovimientos
    /\ \A u \in Usuarios, c \in Categorias :
        /\ Historial(u, c) # {}
        /\ \A w \in Historial(u, c) :
            /\ w.db = db
            /\ IF Filas(db, u, c) = {}
               THEN Reply(w) = Returned("historial", FALSE, MsgNoExiste, <<>>)
               ELSE IF Apuntes(db, u, c) = {}
               THEN Reply(w) = Returned("historial", FALSE, MsgNoHayMovimientos, <<>>)
               ELSE /\ Reply(w).kind = "return" /\ Reply(w).ok
                    /\ Len(Reply(w).data) = Cardinality(Apuntes(db, u, c))
                    /\ {Reply(w).data[i].id : i \in DOMAIN Reply(w).data}
                          = {x.id : x \in Apuntes(db, u, c)}

\* u1 has a budget with a movement and u2 a budget without: the history of
\* u1 is served and the history of u2 says "No hay movimientos"
C17_Witness ==
    /\ Apuntes(db, "u1", MotoLower) # {}
    /\ \E w \in Historial("u1", MotoUpper) : Reply(w).ok /\ Len(Reply(w).data) >= 1
    /\ Filas(db, "u2", MotoLower) # {}
    /\ Rechazo(Historial("u2", MotoPadded), "historial", MsgNoHayMovimientos)

\* C18: obtener_historial returns the movements of the key by fecha
\* descending: each movement of the key once, no earlier movement before a
\* later one, and, the movements having been recorded at strictly increasing
\* times, in the exact reverse of the order of their recording.
C18_OrdenDescendente ==
    \A u \in Usuarios, c \in Categorias :
        \A w \in Historial(u, c) :
            Reply(w).ok =>
                LET data == Reply(w).data
                    recorded == PorId(Apuntes(db, u, c))
                IN  /\ Len(data) = Len(recorded)
                    /\ \A i, j \in DOMAIN data : i < j => data[i].fecha >= data[j].fecha
                    /\ (\A i, j \in DOMAIN recorded :
                            i < j => recorded[i].fecha < recorded[j].fecha)
                       => \A i \in DOMAIN data :
                            /\ data[i].id = recorded[Len(recorded) + 1 - i].id
                            /\ data[i].fecha = recorded[Len(recorded) + 1 - i].fecha
                            /\ data[i].monto = recorded[Len(recorded) + 1 - i].monto

\* the budget of u1 has two movements, one recorded on a half second and one
\* on a full second, and its history gives the second one first
C18_Witness ==
    /\ Cardinality(Apuntes(db, "u1", MotoLower)) = 2
    /\ \E r1, r2 \in Apuntes(db, "u1", MotoLower) :
          r1.id < r2.id /\ r1.fecha % 2 = 1 /\ r2.fecha % 2 = 0
    /\ \E w \in Historial("u1", MotoLower) :
          /\ Reply(w).ok
          /\ Reply(w).data[1].id > Reply(w).data[2].id
          /\ Reply(w).data[1].fecha > Reply(w).data[2].fecha

\* C19: the ids of the movements are given by the store and grow: in every
\* step each row that enters movimientos has an id greater than the id of
\* every row of movimientos there is and of every row there has been, those
\* removed by the cascade of eliminar_presupuesto included (no id is given
\* twice); the count of the ids given never goes back and no stored id is
\* above it.
C19_Step ==
    /\ db.seqM <= db'.seqM
    /\ \A x \in db'.movimientos \ db.movimientos :
        /\ x.id > db.seqM
        /\ x.id <= db'.seqM
        /\ \A r \in db.movimientos : r.id < x.id
    /\ \A r \in db.movimientos : r.id <= db.seqM
    /\ \A r1, r2 \in db'.movimientos : r1.id = r2.id => r1 = r2

C19_IdsCrecientes == [][C19_Step]_vars

\* a movement with the id 1 was recorded and removed with its budget, and
\* the movement recorded after that has the id 2
C19_Witness ==
    /\ db.seqM = 2
    /\ \E r \in db.movimientos : r.id = 2
    /\ \A r \in db.movimientos : r.id # 1

\* C20: obtener_resumen returns, without an error and without a change of
\* the tables, one ResumenPresupuesto for each budget of the user and none
\* for the budgets of other users; gastos and ingresos are the sums over the
\* movements of that user and key, and 0 where the budget has no movement of
\* the tipo; a user without budgets gets the empty list.
C20_Resumen ==
    \A u \in Usuarios :
        /\ Resumen(u) # {}
        /\ \A w \in Resumen(u) :
            LET data == Reply(w).data
                own == {r \in db.presupuestos : r.usuario_id = u}
            IN  /\ Reply(w).kind = "return"
                /\ w.db = db
                /\ Len(data) = Cardinality(own)
                /\ own = {} => data = <<>>
                /\ \A r \in own :
                    \E i \in DOMAIN data :
                        /\ data[i].categoria = r.categoria
                        /\ data[i].monto_inicial = r.monto
                        /\ data[i].periodicidad = r.periodicidad
                        /\ data[i].gastos = Total(db, u, r.categoria, "gasto", db.seqM)
                        /\ data[i].ingresos = Total(db, u, r.categoria, "ingreso", db.seqM)
                        /\ (\A x \in Apuntes(db, u, r.categoria) : x.tipo # "gasto")
                              => data[i].gastos = 0
                        /\ (\A x \in Apuntes(db, u, r.categoria) : x.tipo # "ingreso")
                              => data[i].ingresos = 0

\* u1 has a budget of 100000 with a gasto and no ingreso, u2 a budget of
\* 50000 without movements: each resumen has the one entry of its user
C20_Witness ==
    /\ \E r \in Filas(db, "u1", MotoLower) : r.monto = 100000
    /\ \E r \in Filas(db, "u2", MotoLower) : r.monto = 50000
    /\ Apuntes(db, "u2", MotoLower) = {}
    /\ \E w \in Resumen("u1") :
          /\ Len(Reply(w).data) = 1
          /\ Reply(w).data[1].monto_inicial = 100000
          /\ Reply(w).data[1].gastos = 15000
          /\ Reply(w).data[1].ingresos = 0
    /\ \E w \in Resumen("u2") :
          /\ Len(Reply(w).data) = 1
          /\ Reply(w).data[1].monto_inicial = 50000
          /\ Reply(w).data[1].gastos = 0
          /\ Reply(w).data[1].ingresos = 0

-----------------------------------------------------------------------------
(* SpecClaves: the facade calls of the transport, one at a time, on two     *)
(* users with two categories each; anotados follows what the callers were   *)
(* answered.                                                                *)

\* the outcome w happens and the observer notes a
Servir(w, a) ==
    /\ db' = w.db
    /\ tx' = w.tx
    /\ writer' = w.writer
    /\ req' = w.req
    /\ anotados' = a
    /\ UNCHANGED <<resp, calls, patterns, user_data, paso>>

Exito(w) == Reply(w).kind = "return" /\ Reply(w).ok

CrearClave(u, c, m, per) ==
    \E w \in Crear(u, c, m, per) :
        Servir(w, IF Exito(w)
                  THEN [anotados EXCEPT ![<<u, Normalizar(c)>>].creados = @ + 1,
                                        ![<<u, Normalizar(c)>>].desde = <<>>]
                  ELSE anotados)

EliminarClave(u, c) ==
    \E w \in Eliminar(u, c) :
        Servir(w, IF Exito(w)
                  THEN [anotados EXCEPT ![<<u, Normalizar(c)>>].desde = <<>>]
                  ELSE anotados)

RegistrarClave(u, c, tipo, m, concepto) ==
    \E w \in Registrar(u, c, tipo, m, concepto) :
        Servir(w, IF Exito(w)
                  THEN [anotados EXCEPT
                           ![<<u, Normalizar(c)>>].registrados = @ + 1,
                           ![<<u, Normalizar(c)>>].desde =
                               Append(@, [tipo |-> tipo, monto |-> m,
                                          concepto |-> concepto])]
                  ELSE anotados)

\* the keys of the calls that drive SpecClaves: two categories of u1, one of
\* them written in two ways, and one category of u2
LlamadasClaves ==
    {<<"u1", MotoLower>>, <<"u1", MotoUpper>>, <<"u1", Comida>>, <<"u2", MotoLower>>}

NextClaves ==
    \/ \E k \in LlamadasClaves : CrearClave(k[1], k[2], 100000, AnualCap)
    \/ \E k \in LlamadasClaves : EliminarClave(k[1], k[2])
    \/ \E k \in LlamadasClaves, tipo \in Tipos :
          RegistrarClave(k[1], k[2], tipo, IF tipo = "gasto" THEN 15000 ELSE 5000, <<>>)

SpecClaves == Init /\ [][NextClaves]_vars

-----------------------------------------------------------------------------
(* SpecDialogo: the text messages and the button callbacks of one user, one  *)
(* update at a time.                                                         *)

\* the outcome o of a handler happens; paso keeps the state the update found
Responder(handler, o) ==
    /\ db' = o.w.db
    /\ tx' = o.w.tx
    /\ writer' = o.w.writer
    /\ req' = o.w.req
    /\ user_data' = o.user_data
    /\ paso' = [handler |-> handler, state |-> user_data.state, parsed |-> o.parsed,
                llamadas |-> o.llamadas, reply |-> o.reply]
    /\ UNCHANGED <<resp, calls, patterns, anotados>>

\* the outcomes of a text message and of a button of the user on the
\* current state
Mensaje(text) == handle_message(World, Serial, user_data, patterns, "u1", text)
Boton(data) == handle_callback(World, Serial, user_data, "u1", data)

HandleMessage(text) == \E o \in Mensaje(text) : Responder("message", o)

HandleCallback(data) == \E o \in Boton(data) : Responder("callback", o)

\* texts of the user: "0", "1.500" and a superscript two
Cero == <<"0">>
MilQuinientos == <<"1", ".", "5", "0", "0">>
AlCuadrado == <<"^2">>

\* the callback data of the buttons
DataCrear == <<"a", "=", "c", "r", "e", "a", "r">>
DataMenu == <<"a", "=", "m", "e", "n", "u">>
DataGasto == <<"a", "=", "g", "a", "s", "t", "o">>
DataDe(accion) == <<"a", "=">> \o accion \o <<"|", "c", "=", "m", "o", "t", "o">>

Botones ==
    {DataCrear, DataMenu, DataGasto, DataDe(TxtGasto), DataDe(TxtIngreso),
     DataDe(TxtActualizar), DataDe(TxtConfirmEliminar)}

\* the texts the properties put to every state
Textos ==
    {Cancelar, CambiarCategoria, MotoUpper, Cero, MilQuinientos, AlCuadrado, AnualCap,
     MantenerActual, Guion, HolaQueTal, GasteMotoGasolina}

\* the texts that drive SpecDialogo: as the name of a new category the user
\* sends "MOTO ", and as a concepto "-"
TextosPaso ==
    IF user_data.state = "ESPERA_CATEGORIA_NUEVA" THEN {Cancelar, MotoUpper}
    ELSE IF user_data.state = "ESPERA_CONCEPTO" THEN {Cancelar, CambiarCategoria, Guion}
    ELSE {Cancelar, CambiarCategoria, Cero, MilQuinientos, AnualCap, MantenerActual,
          HolaQueTal}

NextDialogo ==
    \/ \E text \in TextosPaso : HandleMessage(text)
    \/ \E data \in Botones : HandleCallback(data)

SpecDialogo == Init /\ [][NextDialogo]_vars

-----------------------------------------------------------------------------
(* SpecParser: a parser that is given patterns and texts; the text and the  *)
(* result of the last parse are left in resp.                               *)

AddPattern(pat) ==
    /\ Len(patterns) < Len(PatronesDefecto) + MaxPatrones
    /\ patterns' = add_pattern(patterns, pat)
    /\ UNCHANGED <<db, tx, writer, req, resp, calls, anotados, user_data, paso>>

Parse(mensaje) ==
    /\ resp' = [resp EXCEPT ![Serial] =
                  LET result == parse(patterns, mensaje)
                  IN  Returned("parse", result # NoIntent, "", <<mensaje, result>>)]
    /\ UNCHANGED <<db, tx, writer, req, calls, patterns, anotados, user_data, paso>>

NextParser ==
    \/ \E pat \in PatronesNuevos : AddPattern(pat)
    \/ \E mensaje \in Mensajes : Parse(mensaje)

SpecParser == Init /\ [][NextParser]_vars

-----------------------------------------------------------------------------
(* SpecMensajes: the messages of the users, one at a time, each run to its  *)
(* end by process_message with the parser as it is built, on budgets made   *)
(* with crear_presupuesto.  As in Spec the text that goes back to the user  *)
(* is a function of the tables and the message (the operator Procesar).     *)

Procesar(u, mensaje) == process_message(World, Serial, patterns, u, mensaje)

ProcessMessage(u, mensaje) == \E w \in Procesar(u, mensaje) : Serve(w)

\* the messages that drive SpecMensajes, and the budget of the users
MensajesPaso ==
    {GasteMotoGasolina, AnadiConEspacios, AnadiInversion, SaqueCero,
     VerPresupuestoMoto, HolaQueTal}

NextMensajes ==
    \/ \E u \in Usuarios, m \in {50000, 100000} :
          CrearPresupuesto(u, MotoUpper, m, AnualCap)
    \/ \E u \in Usuarios, mensaje \in MensajesPaso : ProcessMessage(u, mensaje)

SpecMensajes == Init /\ [][NextMensajes]_vars

-----------------------------------------------------------------------------
(* SpecPorcentaje: porcentaje_usado read off summary entries built from     *)
(* amounts of every kind; the entry and the value read are left in resp.    *)

\* the amounts of the entries: none, below, equal to and above each other
MontosIniciales == {0, 3, 50000, 100000, 150000}
TotalesGastos == {0, 1, 15000, 50000, 120000}
TotalesIngresos == {0, 5000, 15000, 50000, 120000}

\* the entry of a budget with these totals
Entrada(m, g, i) ==
    ResumenPresupuesto([categoria |-> MotoLower, monto |-> m,
                        periodicidad |-> Anual], g, i)

LeerPorcentaje(m, g, i) ==
    /\ resp' = [resp EXCEPT ![Serial] =
                  Returned("porcentaje_usado", TRUE, "",
                           <<Entrada(m, g, i), porcentaje_usado(Entrada(m, g, i))>>)]
    /\ UNCHANGED <<db, tx, writer, req, calls, patterns, anotados, user_data, paso>>

NextPorcentaje ==
    \E m \in MontosIniciales, g \in TotalesGastos, i \in TotalesIngresos :
        LeerPorcentaje(m, g, i)

SpecPorcentaje == Init /\ [][NextPorcentaje]_vars

\* C21: the used percentage of a summary entry is its expenses over its
\* initial amount times 100 (here to two decimals), whatever its income; it
\* is 0 when the initial amount is 0, whatever the expenses, and it is above
\* 100 when the expenses are above the initial amount.
C21_PorcentajeUsado ==
    resp[Serial].op = "porcentaje_usado" =>
        LET r == resp[Serial].data[1]
            p == resp[Serial].data[2]
        IN  /\ r.monto_inicial = 0 => p = 0
            /\ r.monto_inicial > 0 =>
                  /\ p * r.monto_inicial <= r.gastos * 10000
                  /\ r.gastos * 10000 < (p + 1) * r.monto_inicial
            /\ p = porcentaje_usado(Entrada(r.monto_inicial, r.gastos, 0))
            /\ (r.monto_inicial > 0 /\ r.gastos > r.monto_inicial) => p > 10000

C21_Witness ==
    /\ resp[Serial].op = "porcentaje_usado"
    /\ resp[Serial].data[1].monto_inicial = 0
    /\ resp[Serial].data[1].gastos = 15000
    /\ resp[Serial].data[2] = 0

\* a call that breaks a business rule came back as (False, message)
Devuelta(ws) ==
    /\ ws # {}
    /\ \A w \in ws : Reply(w).kind = "return" /\ ~Reply(w).ok /\ Reply(w).msg # ""

\* C22: a call that breaks a business rule (blank categoria, amount <= 0,
\* periodicidad that is not one of the four labels, tipo that is not gasto
\* or ingreso, budget that exists already, budget that does not exist)
\* returns (False, message) and raises nothing.  (In the code an empty
\* periodicidad passes actualizar_presupuesto, see C13; and the loser of two
\* concurrent crear_presupuesto leaves with sqlite3.IntegrityError, see C3.)
C22_ViolacionesDevueltas ==
    \A u \in Usuarios :
        /\ \A c \in CategoriasCrear, m \in MontosPresupuesto, per \in Periodicidades :
              (\/ Normalizar(c) = <<>>
               \/ m <= 0
               \/ Lower(per) \notin PeriodicidadesValidas
               \/ Filas(db, u, c) # {}) => Devuelta(Crear(u, c, m, per))
        /\ \A c \in Categorias, m \in MontosPresupuesto, per \in PeriodicidadesOpt :
              (\/ m <= 0
               \/ (per.some /\ Lower(per.val) \notin PeriodicidadesValidas)
               \/ Filas(db, u, c) = {}) => Devuelta(Actualizar(u, c, m, per))
        /\ \A c \in Categorias :
              Filas(db, u, c) = {} =>
                  /\ Devuelta(Eliminar(u, c))
                  /\ Devuelta(Historial(u, c))
        /\ \A c \in Categorias, tipo \in Tipos \cup {"otro"}, m \in MontosMovimiento :
              (m <= 0 \/ tipo \notin Tipos \/ Filas(db, u, c) = {}) =>
                  Devuelta(Registrar(u, c, tipo, m, Gasolina))

\* C23: a storage failure in a call leaves the call as an exception, never
\* as a returned (False, message), and the store is as it was before the
\* call: the failing step changes no committed row and leaves nothing
\* uncommitted behind, and a call that has committed is over, so a failing
\* call has committed nothing.
C23_Step ==
    \A p \in Procs :
        /\ Failure(p) =>
              /\ resp'[p].kind = "raise"
              /\ resp'[p] # Returned(req[p].op, FALSE, resp'[p].msg, resp'[p].data)
        /\ (req[p].pc # "idle" /\ req'[p].pc = "idle" /\ resp'[p].kind = "raise") =>
              /\ db' = db
              /\ writer' # p
              /\ writer = p => tx' = db
        /\ (req[p].pc # "idle" /\ writer = p /\ db' # db) =>
              req'[p].pc = "idle" /\ resp'[p].kind = "return"

C23_FalloPropagado == [][C23_Step]_vars

\* registrar_gasto failed at its commit: the movement it had inserted is not
\* in the store, and the budget is
C23_Witness ==
    \E p \in Procs :
        /\ resp[p] = Raised("gasto", "StorageError", "registrar_commit")
        /\ db.movimientos = {}
        /\ db.presupuestos # {}
        /\ tx = db

\* the rows of user u in the tables d, without the ids and the dates, which
\* number and date the rows of all users together
Propias(d, u) ==
    [presupuestos |-> {[categoria |-> r.categoria, monto |-> r.monto,
                        periodicidad |-> r.periodicidad] :
                          r \in {x \in d.presupuestos : x.usuario_id = u}},
     movimientos |-> {[categoria |-> r.categoria, tipo |-> r.tipo,
                       monto |-> r.monto, concepto |-> r.concepto] :
                          r \in {x \in d.movimientos : x.usuario_id = u}}]

\* C24: calls of different users do not touch each other: a step of a call
\* for one user changes no row of another user, and no call fails because
\* of a call of another user.  (In the code all users share one database
\* file and its one write lock: a statement that waits for the lock of
\* another user's transaction longer than the timeout of its connection
\* raises sqlite3.OperationalError.)
C24_Step ==
    \A p \in Procs :
        /\ (~Idle(p) /\ req'[p] # req[p]) =>
              \A u \in Usuarios \ {UsuarioDe(req[p])} :
                  Propias(db', u) = Propias(db, u)
        /\ Locked(p) => UsuarioDe(req[writer]) = UsuarioDe(req[p])

C24_UsuariosIndependientes == [][C24_Step]_vars

-----------------------------------------------------------------------------
(* The parser and the dispatcher *)

\* the text of the last parse and its result
Parsed == resp[Serial].op = "parse"
ParsedText == resp[Serial].data[1]
ParsedResult == resp[Serial].data[2]

\* the result of pattern number i of the parser on the text t
Solo(i, t) == parse(<<PatronesDefecto[i]>>, t)

\* C25: parse asks GastoPattern, IngresoPattern and VerPresupuestoPattern in
\* this order and the first that matches decides: a text GastoPattern
\* matches gives its gasto, whatever else matches it; a text IngresoPattern
\* matches and GastoPattern does not gives its ingreso; a text only
\* VerPresupuestoPattern matches gives its ver_presupuesto.  For every text
\* and for the text parsed last, whatever patterns were added.
C25_PrimeroGana ==
    /\ \A t \in Mensajes :
          LET s == Strip(t)
              r == parse(patterns, t)
          IN  IF can_handle(PatronesDefecto[1], s) THEN r = Solo(1, t) /\ r.action = "gasto"
              ELSE IF can_handle(PatronesDefecto[2], s)
              THEN r = Solo(2, t) /\ r.action = "ingreso"
              ELSE can_handle(PatronesDefecto[3], s) =>
                      r = Solo(3, t) /\ r.action = "ver_presupuesto"
    /\ Parsed =>
          /\ can_handle(PatronesDefecto[1], Strip(ParsedText)) =>
                ParsedResult.action = "gasto"
          /\ (/\ ~can_handle(PatronesDefecto[1], Strip(ParsedText))
              /\ can_handle(PatronesDefecto[2], Strip(ParsedText))) =>
                ParsedResult.action = "ingreso"

\* a text that the three patterns match was parsed as a gasto, and one that
\* IngresoPattern and VerPresupuestoPattern match parses as an ingreso
C25_Witness ==
    /\ Parsed
    /\ ParsedText = GasteSumeVer
    /\ \A i \in 1..3 : can_handle(PatronesDefecto[i], Strip(GasteSumeVer))
    /\ ParsedResult.action = "gasto"
    /\ can_handle(PatronesDefecto[3], Strip(SumeVer))
    /\ parse(patterns, SumeVer).action = "ingreso"

\* the patterns of the parser that match the text t and extract nothing
SinDatos(t) ==
    {i \in DOMAIN patterns : /\ can_handle(patterns[i], Strip(t))
                             /\ ~extract_data(patterns[i], Strip(t)).some}

\* C26: parse returns None for a text that no pattern matches, and for a
\* text of which a pattern that matches it extracts nothing.  (The loop of
\* parse goes on to the next pattern when extract_data returns nothing: the
\* text gets the intent of a later pattern that handles it.)
C26_SinIntencion ==
    \A t \in Mensajes :
        (\/ \A i \in DOMAIN patterns : ~can_handle(patterns[i], Strip(t))
         \/ SinDatos(t) # {}) => parse(patterns, t) = NoIntent

\* the text t has the word "por" nowhere
SinPor(t) == \A i \in 1..Len(t) : Literal(t, i, <<"p", "o", "r">>) = 0

\* C27: "Gaste' 3000 de moto por gasolina" parses to gasto, 3000, "moto",
\* "gasolina"; "An~adi' 5000 a inversio'n" to ingreso, 5000, "inversio'n" and
\* the empty concepto; "Ver presupuesto moto" to ver_presupuesto of "moto";
\* "hola que tal" to None with the patterns the parser is built with; and for
\* every text a gasto or ingreso without "por" has the empty concepto, and
\* the categoria of every intent is in lower case.
C27_Escenarios ==
    /\ parse(patterns, GasteMotoGasolina) =
          [action |-> "gasto",
           data |-> [monto |-> 3000, categoria |-> MotoLower, concepto |-> Gasolina]]
    /\ parse(patterns, AnadiInversion) =
          [action |-> "ingreso",
           data |-> [monto |-> 5000,
                     categoria |-> <<"i", "n", "v", "e", "r", "s", "i", "o'", "n">>,
                     concepto |-> <<>>]]
    /\ parse(patterns, VerPresupuestoMoto) =
          [action |-> "ver_presupuesto", data |-> [categoria |-> MotoLower]]
    /\ patterns = PatronesDefecto => parse(patterns, HolaQueTal) = NoIntent
    /\ \A t \in Mensajes :
          LET r == parse(patterns, t)
          IN  r.action \in {"gasto", "ingreso", "ver_presupuesto"} =>
                  /\ r.data.categoria = Lower(r.data.categoria)
                  /\ (r.action # "ver_presupuesto" /\ SinPor(t)) =>
                        r.data.concepto = <<>>
    /\ (Parsed /\ ParsedText = VerPresupuestoMoto) =>
          ParsedResult.data.categoria = MotoLower

\* "Ver presupuesto moto" was parsed, to the categoria "moto", by a parser
\* that gives a gasto with the concepto "gasolina" and one without concepto
C27_Witness ==
    /\ Parsed
    /\ ParsedText = VerPresupuestoMoto
    /\ ParsedResult = [action |-> "ver_presupuesto", data |-> [categoria |-> MotoLower]]
    /\ parse(patterns, GasteMotoGasolina).data.concepto = Gasolina
    /\ \E t \in Mensajes : /\ SinPor(t)
                           /\ t # Lower(t)
                           /\ parse(patterns, t).action = "gasto"

\* C28: add_pattern changes the result of no text that had an intent, leaves
\* the patterns before the new one as they were, and a text whose result
\* changes had none and has the intent of the new pattern.
C28_Step ==
    patterns' # patterns =>
        /\ SubSeq(patterns', 1, Len(patterns)) = patterns
        /\ \A t \in Mensajes :
              LET antes == parse(patterns, t)
                  despues == parse(patterns', t)
              IN  /\ antes # NoIntent => despues = antes
                  /\ despues # antes =>
                        despues = parse(<<patterns'[Len(patterns')]>>, t)

C28_PatronesAnteriores == [][C28_Step]_vars

\* a pattern that handles every text was added, "hola que tal" has its
\* intent, and the text parsed after that was parsed as a gasto
C28_Witness ==
    /\ Len(patterns) > Len(PatronesDefecto)
    /\ parse(patterns, HolaQueTal).action = "todo"
    /\ Parsed
    /\ ParsedText = GasteMotoGasolina
    /\ ParsedResult.action = "gasto"

\* what a call leaves: the tables and the text that goes back
Efectos(ws) == {<<w.db, Reply(w).msg>> : w \in ws}

\* C29: process_message answers every message.  A text without intent gets
\* the help message and the tables stay.  A gasto or an ingreso is one call
\* of registrar_gasto or registrar_ingreso with the user, the categoria, the
\* monto and the concepto of the intent: the tables and the text after it
\* are those of that call, which adds at most one movement, with these
\* fields, and exactly one when the budget exists and the monto is above 0.
\* A ver_presupuesto leaves the tables and answers with the saldo, the
\* periodicidad and the percentage of the budget of the user with the
\* categoria of the intent, or with "No se encontro presupuesto" when the
\* user has none.
C29_Despacho ==
    \A u \in Usuarios, t \in Mensajes :
        LET r == parse(patterns, t)
            ws == Procesar(u, t)
        IN  /\ \A w \in ws : Reply(w).kind = "return" /\ Reply(w).msg # ""
            /\ r.action \notin {"gasto", "ingreso", "ver_presupuesto"} =>
                  /\ ws # {}
                  /\ \A w \in ws : w.db = db /\ Reply(w).msg = MsgAyuda
            /\ r.action \in {"gasto", "ingreso"} =>
                  /\ MayInsert(World) => ws # {}
                  /\ Efectos(ws) = Efectos(Registrar(u, r.data.categoria, r.action,
                                                     r.data.monto, r.data.concepto))
                  /\ \A w \in ws :
                        LET nuevas == w.db.movimientos \ db.movimientos
                        IN  /\ w.db.presupuestos = db.presupuestos
                            /\ db.movimientos \subseteq w.db.movimientos
                            /\ Cardinality(nuevas) <= 1
                            /\ \A x \in nuevas :
                                  /\ x.usuario_id = u /\ x.tipo = r.action
                                  /\ x.categoria = r.data.categoria
                                  /\ x.monto = r.data.monto
                                  /\ x.concepto = r.data.concepto
                            /\ (Filas(db, u, r.data.categoria) # {} /\ r.data.monto > 0)
                                  <=> nuevas # {}
                            /\ Reply(w).msg # MsgAyuda
            /\ r.action = "ver_presupuesto" =>
                  /\ ws # {}
                  /\ \A w \in ws :
                        /\ w.db = db
                        /\ IF Filas(db, u, r.data.categoria) = {}
                           THEN Reply(w) = Texto(MsgNoSeEncontro, <<r.data.categoria>>)
                           ELSE \E fila \in Filas(db, u, r.data.categoria) :
                                  LET g == SumaMontos({x \in Apuntes(db, u, fila.categoria) :
                                                          x.tipo = "gasto"})
                                      i == SumaMontos({x \in Apuntes(db, u, fila.categoria) :
                                                          x.tipo = "ingreso"})
                                  IN  Reply(w) =
                                        Texto(MsgPresupuesto,
                                              <<r.data.categoria, fila.monto + i - g,
                                                fila.periodicidad,
                                                Formato1f(porcentaje_usado(
                                                    Entrada(fila.monto, g, i)))>>)

\* u1 has the budget moto with the gasto of 3000 for gasolina and the ingreso
\* of 5000 for sueldo that the messages recorded, and "Ver presupuesto moto"
\* answers with its saldo and 6.0 per cent used
C29_Witness ==
    /\ \E x \in Apuntes(db, "u1", MotoLower) :
          x.tipo = "gasto" /\ x.monto = 3000 /\ x.concepto = Gasolina
    /\ \E x \in Apuntes(db, "u1", MotoLower) :
          x.tipo = "ingreso" /\ x.monto = 5000
                             /\ x.concepto = <<"s", "u", "e", "l", "d", "o">>
    /\ Cardinality(db.movimientos) = 2
    /\ \E w \in Procesar("u1", VerPresupuestoMoto) :
          Reply(w) = Texto(MsgPresupuesto, <<MotoLower, 52000, Anual, 60>>)
    /\ \A w \in Procesar("u2", VerPresupuestoMoto) : Reply(w).msg = MsgNoSeEncontro

\* the call that ended in w left everything but its reply as it was
Intacto(w) == w.db = db /\ w.tx = tx /\ w.writer = writer /\ w.req = req

\* the replies of a call
Respuestas(ws) == {Reply(w) : w \in ws}

\* C30: presupuesto_existe, obtener_historial, obtener_resumen and a
\* ver_presupuesto message change no budget and no movement, nor anything
\* else that a later call reads: the same read after them gives the same
\* reply, and so does the write after them.
C30_LecturasPuras ==
    \A u \in Usuarios :
        /\ \A c \in Categorias :
              /\ Existe(u, c) # {} /\ Historial(u, c) # {}
              /\ \A w \in Existe(u, c) \cup Historial(u, c) :
                    /\ Intacto(w)
                    /\ Respuestas(Run(existe(w, Serial, u, c), Serial)) =
                          Respuestas(Existe(u, c))
                    /\ Respuestas(Run(historial(w, Serial, u, c), Serial)) =
                          Respuestas(Historial(u, c))
        /\ Resumen(u) # {}
        /\ \A w \in Resumen(u) :
              /\ Intacto(w)
              /\ Respuestas(Run(resumen(w, Serial, u), Serial)) = Respuestas(Resumen(u))
              /\ Efectos(Run(registrar_movimiento(w, Serial, u, MotoLower, "gasto",
                                                  15000, Gasolina), Serial)) =
                    Efectos(Registrar(u, MotoLower, "gasto", 15000, Gasolina))
        /\ \A w \in Procesar(u, VerPresupuestoMoto) :
              /\ Intacto(w)
              /\ Respuestas(Run(resumen(w, Serial, u), Serial)) = Respuestas(Resumen(u))

\* u1 has a budget with two movements: the history returns both, the
\* summary has its entry, the view answers with it, and the tables stay
C30_Witness ==
    /\ Cardinality(Apuntes(db, "u1", MotoLower)) = 2
    /\ \A w \in Historial("u1", MotoUpper) :
          Reply(w).ok /\ Len(Reply(w).data) = 2 /\ Intacto(w)
    /\ \A w \in Resumen("u1") : Len(Reply(w).data) = 1 /\ Intacto(w)
    /\ \A w \in Procesar("u1", VerPresupuestoMoto) :
          Reply(w).msg = MsgPresupuesto /\ Intacto(w)

-----------------------------------------------------------------------------
(* Properties of the keys *)

\* the entries of the summary of u for the key of c, after outcome w
EntradasDe(w, u, c) ==
    UNION {{Reply(x).data[i] : i \in {j \in DOMAIN Reply(x).data :
                                        Reply(x).data[j].categoria = Normalizar(c)}} :
           x \in Run(resumen(w, Serial, u), Serial)}

\* C31: with the facade calls run one after the other, every stored movement
\* has a budget with its usuario_id and categoria; and a budget that is
\* created, whatever was recorded and deleted under its key before, starts
\* with gastos 0, ingresos 0 and an empty history.
C31_SinHuerfanos ==
    /\ \A r \in db.movimientos :
          \E b \in db.presupuestos :
              b.usuario_id = r.usuario_id /\ b.categoria = r.categoria
    /\ \A u \in Usuarios, c \in CategoriasClaves :
          \A w \in Crear(u, c, 100000, AnualCap) :
              Exito(w) =>
                  /\ Apuntes(w.db, u, c) = {}
                  /\ EntradasDe(w, u, c) # {}
                  /\ \A e \in EntradasDe(w, u, c) : e.gastos = 0 /\ e.ingresos = 0
                  /\ \A x \in Run(historial(w, Serial, u, c), Serial) :
                        Reply(x) = Returned("historial", FALSE, MsgNoHayMovimientos, <<>>)

\* the budget of (u1, moto) was created, had a movement recorded, was deleted
\* and has been created again: it is there with no movement
C31_Witness ==
    /\ anotados[<<"u1", MotoLower>>].creados = 2
    /\ anotados[<<"u1", MotoLower>>].registrados >= 1
    /\ Filas(db, "u1", MotoLower) # {}
    /\ Apuntes(db, "u1", MotoLower) = {}
    /\ \A e \in EntradasDe(World, "u1", MotoLower) : e.gastos = 0 /\ e.ingresos = 0

\* C32: when a call that records a movement and an eliminar_presupuesto of
\* the same key are interleaved at their store calls, no movement is left
\* stored under a key that has no budget.  (The service checks for the
\* budget on a connection of its own before the INSERT of the movement, so
\* the whole cascade can commit between the two.)
C32_SinHuerfanosConcurrente ==
    \A r \in db.movimientos :
        \E b \in db.presupuestos :
            b.usuario_id = r.usuario_id /\ b.categoria = r.categoria

\* the rows of the two tables of d that are not under the key (u, c)
Ajenos(d, u, c) ==
    [presupuestos |-> d.presupuestos \ Filas(d, u, c),
     movimientos |-> d.movimientos \ Apuntes(d, u, c)]

\* the outcomes of every write call of the facade for (u, c)
EscriturasDe(u, c) ==
    UNION ({Crear(u, c, m, AnualCap) : m \in {0, 100000}}
           \cup {Actualizar(u, c, 50000, per) : per \in {None, Some(AnualCap)}}
           \cup {Eliminar(u, c)}
           \cup {Registrar(u, c, tipo, m, <<>>) : tipo \in Tipos, m \in {0, 15000}})

\* C33: a write call for the key (u, c) leaves the budgets and the movements
\* of every other key as they were, those of the other users and those of
\* the other categories of u; the cascade of eliminar_presupuesto removes no
\* movement of another user or of another normalized categoria.
C33_OtrasClaves ==
    \A u \in Usuarios, c \in CategoriasClaves :
        \A w \in EscriturasDe(u, c) : Ajenos(w.db, u, c) = Ajenos(db, u, c)

\* u1 has movements under moto and under comida; eliminar_presupuesto of moto
\* takes the movements of moto and leaves those of comida
C33_Witness ==
    /\ Apuntes(db, "u1", MotoLower) # {}
    /\ Apuntes(db, "u1", Comida) # {}
    /\ \E w \in Eliminar("u1", MotoLower) :
          /\ Exito(w)
          /\ Apuntes(w.db, "u1", MotoLower) = {}
          /\ Apuntes(w.db, "u1", Comida) = Apuntes(db, "u1", Comida)
          /\ Filas(w.db, "u1", Comida) # {}

\* C34: actualizar_presupuesto touches no movement: after a successful
\* update of the key (u, c) to the amount m the movements are the same, and
\* the summary entry of the key has monto_inicial = m, the gastos and the
\* ingresos it had, and a saldo that moved by m minus the amount before.
\* (With a categoria that is not already lowercase and stripped the code's
\* UPDATE matches nothing and the summary keeps the amount before: see C10.)
C34_ActualizarSinMovimientos ==
    \A u \in Usuarios, c \in Categorias, m \in MontosPresupuesto,
       per \in {None, Some(AnualCap)} :
        \A w \in Actualizar(u, c, m, per) :
            Exito(w) =>
                /\ w.db.movimientos = db.movimientos
                /\ EntradasDe(w, u, c) # {}
                /\ \A a \in EntradasDe(World, u, c), d \in EntradasDe(w, u, c) :
                      /\ d.monto_inicial = m
                      /\ d.gastos = a.gastos
                      /\ d.ingresos = a.ingresos
                      /\ d.saldo - a.saldo = m - a.monto_inicial

\* how many entries of the sequence s are x
Veces(s, x) == Cardinality({i \in DOMAIN s : s[i] = x})

\* the movements of a history as their callers gave them
Contenido(data) ==
    [i \in DOMAIN data |-> [tipo |-> data[i].tipo, monto |-> data[i].monto,
                            concepto |-> data[i].concepto]]

\* C35: with the facade calls run one after the other, a successful
\* obtener_historial of (u, c) returns exactly the movements whose recording
\* returned success for the key since its last successful creation: none is
\* lost, none that was recorded before a successful eliminar_presupuesto of
\* the key comes back, none of another key is there.  (An
\* eliminar_presupuesto with a categoria that is not already lowercase and
\* stripped returns True and deletes nothing: see C4 and C10.)
C35_HistorialExacto ==
    \A u \in Usuarios, c \in CategoriasClaves :
        \A w \in Historial(u, c) :
            Exito(w) =>
                LET dado == Contenido(Reply(w).data)
                    visto == anotados[<<u, Normalizar(c)>>].desde
                IN  /\ Len(dado) = Len(visto)
                    /\ \A i \in DOMAIN visto : Veces(dado, visto[i]) = Veces(visto, visto[i])

-----------------------------------------------------------------------------
(* Properties of the dialog *)

\* the facade call of the flow of gastos and ingresos that goes with the
\* stored accion
TipoElegido == IF user_data.accion = Some(TxtIngreso) THEN "ingreso" ELSE "gasto"

\* C36: after any sequence of text messages and buttons of one user, when
\* the pending state is ESPERA_MONTO or ESPERA_CONCEPTO the stored accion is
\* "gasto" or "ingreso" and a categoria is stored; and the step at
\* ESPERA_CONCEPTO calls registrar_ingreso, and stores a movement of tipo
\* ingreso, only when the stored accion is "ingreso", and registrar_gasto
\* only when it is "gasto".
C36_EstadoCoherente ==
    /\ user_data.state \in {"ESPERA_MONTO", "ESPERA_CONCEPTO"} =>
          /\ user_data.accion \in {Some(TxtGasto), Some(TxtIngreso)}
          /\ Truthy(user_data.categoria)
    /\ user_data.state = "ESPERA_CONCEPTO" =>
          \A text \in Textos : \A o \in Mensaje(text) :
              /\ \A i \in DOMAIN o.llamadas : o.llamadas[i].op = TipoElegido
              /\ \A r \in o.w.db.movimientos \ db.movimientos : r.tipo = TipoElegido

\* the user chose ingreso for moto, sent an amount and a concepto, and the
\* step at ESPERA_CONCEPTO has recorded an ingreso
C36_Witness ==
    /\ paso.handler = "message"
    /\ paso.state = "ESPERA_CONCEPTO"
    /\ paso.reply = "hecho"
    /\ Len(paso.llamadas) = 1
    /\ paso.llamadas[1].op = "ingreso"
    /\ \E r \in db.movimientos : r.tipo = "ingreso"
    /\ user_data = Clear

\* free texts: one the parser has an intent for, one it has none for, and an
\* amount
TextosLibres == {GasteMotoGasolina, HolaQueTal, MilQuinientos}

\* C37: in every dialog state the text of the button "Cancelar" leaves
\* user_data with none of state, accion, categoria and monto, calls no write
\* of the facade and leaves the tables as they were; and the text message
\* that comes next (a free text, not a button of the keyboards) goes to
\* MessageProcessor.process_message.
C37_CancelarLimpia ==
    \A o \in Mensaje(Cancelar) :
        /\ o.user_data = Clear
        /\ o.llamadas = <<>>
        /\ ~o.parsed
        /\ o.w.db = db
        /\ \A text \in TextosLibres :
              \A x \in handle_message(o.w, Serial, o.user_data, patterns, "u1", text) :
                  x.parsed

\* the user cancelled at the step of the concepto of a gasto of moto: nothing
\* is pending, no movement was stored, and "gaste 15000 en moto gasolina" is
\* now read by the parser, which records the gasto
C37_Witness ==
    /\ paso.handler = "message"
    /\ paso.state = "ESPERA_CONCEPTO"
    /\ paso.reply = "cancelada"
    /\ paso.llamadas = <<>>
    /\ user_data = Clear
    /\ Filas(db, "u1", MotoLower) # {}
    /\ \E x \in Mensaje(GasteMotoGasolina) :
          x.parsed /\ x.w.db.movimientos # db.movimientos

\* the states whose step calls a write of the facade
EstadosQueEscriben ==
    {"ESPERA_PERIODICIDAD", "ESPERA_PERIODICIDAD_ACTUALIZAR", "ESPERA_CONCEPTO"}

\* C38: while a dialog state is pending, no text message goes to
\* MessageProcessor.process_message; the step of the state takes it, calls a
\* write of the facade only at ESPERA_PERIODICIDAD (crear_presupuesto),
\* ESPERA_PERIODICIDAD_ACTUALIZAR (actualizar_presupuesto) and
\* ESPERA_CONCEPTO (registrar_gasto or registrar_ingreso), at most once, and
\* after the call nothing is pending, whether the call returned success or
\* failure.
C38_PasoConsume ==
    user_data.state # Falta =>
        \A text \in Textos : \A o \in Mensaje(text) :
            /\ ~o.parsed
            /\ Len(o.llamadas) <= 1
            /\ o.llamadas # <<>> =>
                  /\ user_data.state \in EstadosQueEscriben
                  /\ o.llamadas[1].op =
                        (IF user_data.state = "ESPERA_PERIODICIDAD" THEN "crear"
                         ELSE IF user_data.state = "ESPERA_PERIODICIDAD_ACTUALIZAR"
                         THEN "actualizar" ELSE TipoElegido)
                  /\ o.reply \in {"hecho", "aviso"}
                  /\ o.user_data = Clear
            /\ o.llamadas = <<>> => o.w.db = db

\* the user chose to update moto, which has no budget, sent an amount and a
\* periodicidad: actualizar_presupuesto was called once, returned failure,
\* the text did not go to the parser and nothing is pending
C38_Witness ==
    /\ paso.handler = "message"
    /\ paso.state = "ESPERA_PERIODICIDAD_ACTUALIZAR"
    /\ ~paso.parsed
    /\ Len(paso.llamadas) = 1
    /\ paso.llamadas[1].op = "actualizar"
    /\ paso.reply = "aviso"
    /\ user_data = Clear

\* the amount steps of the flows that create and update a budget
EstadosMontoPositivo == {"ESPERA_MONTO_PRESUPUESTO", "ESPERA_MONTO_ACTUALIZAR"}

\* C39: no step of the guided flows calls a write of the facade with an
\* amount that is not greater than 0: at ESPERA_MONTO_PRESUPUESTO and
\* ESPERA_MONTO_ACTUALIZAR a text either leaves the step pending with
\* user_data as it was or stores an amount greater than 0 (the cancel text
\* aside); and in the flow of gastos and ingresos the amount 0 is taken at
\* ESPERA_MONTO, and the step at ESPERA_CONCEPTO then resets the flow without
\* a call of the facade and without a movement stored.
C39_MontoPositivo ==
    user_data.state # Falta =>
        \A text \in Textos : \A o \in Mensaje(text) :
            /\ \A i \in DOMAIN o.llamadas : o.llamadas[i].monto > 0
            /\ o.w.db.movimientos \subseteq
                  db.movimientos \cup {r \in o.w.db.movimientos : r.monto > 0}
            /\ user_data.state \in EstadosMontoPositivo /\ text # Cancelar =>
                  \/ o.user_data = user_data
                  \/ /\ o.user_data.monto.some
                     /\ o.user_data.monto.val > 0
                     /\ o.user_data.state \in EstadosQueEscriben
            /\ user_data.state \in EstadosMontoPositivo /\ text = Cero =>
                  o.user_data = user_data /\ o.reply = "monto_mayor_a_0"
            /\ user_data.state = "ESPERA_MONTO" /\ text = Cero =>
                  /\ o.user_data.state = "ESPERA_CONCEPTO"
                  /\ o.user_data.monto = [some |-> TRUE, val |-> 0]
            /\ /\ user_data.state = "ESPERA_CONCEPTO"
               /\ user_data.monto.val = 0
               /\ text \notin {Cancelar, CambiarCategoria}
               => /\ o.reply = "reinicio"
                  /\ o.user_data = Clear
                  /\ o.llamadas = <<>>
                  /\ o.w.db = db

\* the user chose a gasto of moto, which has a budget, sent the amount 0 and
\* then a concepto: the flow was reset, the facade was not called and no
\* movement is stored
C39_Witness ==
    /\ paso.handler = "message"
    /\ paso.state = "ESPERA_CONCEPTO"
    /\ paso.reply = "reinicio"
    /\ paso.llamadas = <<>>
    /\ user_data = Clear
    /\ Filas(db, "u1", MotoLower) # {}
    /\ db.movimientos = {}

====
